---- MODULE Spec2Model ----
(***************************************************************************)
(* A model of the tftp-rs server: the wire codec (tftp_protocol.rs), the   *)
(* listener, the download (RRQ) and upload (WRQ) session engines, option   *)
(* negotiation and the path sanitizer (server.rs).                         *)
(*                                                                         *)
(* Texts and datagrams are sequences of byte values (0..255).  Option maps *)
(* are functions from key text to value text.  Paths are sequences of      *)
(* components, each a text.                                                *)
(***************************************************************************)
EXTENDS Integers, Sequences, FiniteSets, TLC

(***************************************************************************)
(* Program constants.                                                      *)
(***************************************************************************)
OPCODE_RRQ == 1
OPCODE_WRQ == 2
OPCODE_DATA == 3
OPCODE_ACK == 4
OPCODE_ERROR == 5
OPCODE_OACK == 6
BLOCK_SIZE == 512
MAX_BLKSIZE == 65464
MAX_RETRIES == 10
\* lower end of the accepted blksize range, (8..=MAX_BLKSIZE)
MIN_BLKSIZE == 8
\* block numbers are u16
U16_MOD == 65536

(***************************************************************************)
(* Bounds of the model.                                                    *)
(***************************************************************************)
\* sessions the listener spawns in one behaviour
MaxSessions == 2
\* bytes the uploading peer sends in full blocks before it must send a short one
MaxFullBytes == 16
\* packets per wait loop that are answered by a retransmission without
\* counting as a timeout
MaxStray == 1

\* the symbolic links one path resolution follows before it gives up
MaxLinks == 2
\* the block ordinal a long transfer has reached where its behaviour starts
WrapStart == 65534
\* the bytes after the opcode in the buffers handed to the decoder
MaxTail == 4

(***************************************************************************)
(* Texts used on the wire.                                                 *)
(***************************************************************************)
\* "octet"
TXT_octet == <<111, 99, 116, 101, 116>>
\* "blksize"
TXT_blksize == <<98, 108, 107, 115, 105, 122, 101>>
\* "tsize"
TXT_tsize == <<116, 115, 105, 122, 101>>
\* "0"
TXT_zero == <<48>>

EmptyMap == [k \in {} |-> <<>>]

(***************************************************************************)
(* tftp_protocol.rs: the codec.                                            *)
(***************************************************************************)
\* an encoding of 16-bit integers with the low byte first
to_be_bytes_Le(n) == << n % 256, n \div 256 >>

to_be_bytes(n) == << n \div 256, n % 256 >>

from_be_bytes(hi, lo) == hi * 256 + lo

\* slice::split / str::split on one byte: the fields between separators, at
\* least one
RECURSIVE split_on(_, _)
split_on(s, sep) ==
    IF \A k \in 1..Len(s) : s[k] # sep
    THEN << s >>
    ELSE LET k == CHOOSE k \in 1..Len(s) : s[k] = sep /\ \A j \in 1..(k - 1) : s[j] # sep
         IN  << SubSeq(s, 1, k - 1) >> \o split_on(SubSeq(s, k + 1, Len(s)), sep)

split_nul(s) == split_on(s, 0)

to_ascii_lowercase(s) ==
    [k \in 1..Len(s) |-> IF s[k] \in 65..90 THEN s[k] + 32 ELSE s[k]]

IsCont(s, k) == k <= Len(s) /\ s[k] \in 128..191

\* The length of the UTF-8 sequence that starts at s[i] and whether it is
\* valid; an invalid one has the length of its maximal well-formed prefix
\* (at least 1), as core::str's decoder reports it.
utf8_chunk(s, i) ==
    LET b == s[i]
        second(lo, hi) == i + 1 <= Len(s) /\ s[i + 1] \in lo..hi
        seq3(lo, hi) ==
            IF ~second(lo, hi) THEN [valid |-> FALSE, len |-> 1]
            ELSE IF ~IsCont(s, i + 2) THEN [valid |-> FALSE, len |-> 2]
            ELSE [valid |-> TRUE, len |-> 3]
        seq4(lo, hi) ==
            IF ~second(lo, hi) THEN [valid |-> FALSE, len |-> 1]
            ELSE IF ~IsCont(s, i + 2) THEN [valid |-> FALSE, len |-> 2]
            ELSE IF ~IsCont(s, i + 3) THEN [valid |-> FALSE, len |-> 3]
            ELSE [valid |-> TRUE, len |-> 4]
    IN  CASE b < 128 -> [valid |-> TRUE, len |-> 1]
          [] b \in 194..223 ->
                IF IsCont(s, i + 1) THEN [valid |-> TRUE, len |-> 2]
                ELSE [valid |-> FALSE, len |-> 1]
          [] b = 224 -> seq3(160, 191)
          [] b \in 225..236 \/ b \in 238..239 -> seq3(128, 191)
          [] b = 237 -> seq3(128, 159)
          [] b = 240 -> seq4(144, 191)
          [] b \in 241..243 -> seq4(128, 191)
          [] b = 244 -> seq4(128, 143)
          [] OTHER -> [valid |-> FALSE, len |-> 1]

\* String::from_utf8(..).is_ok()
RECURSIVE utf8_ok_from(_, _)
utf8_ok_from(s, i) ==
    IF i > Len(s) THEN TRUE
    ELSE LET c == utf8_chunk(s, i)
         IN  c.valid /\ utf8_ok_from(s, i + c.len)

from_utf8_ok(s) == utf8_ok_from(s, 1)

\* String::from_utf8_lossy: every invalid sequence becomes U+FFFD
RECURSIVE lossy_from(_, _)
lossy_from(s, i) ==
    IF i > Len(s) THEN <<>>
    ELSE LET c == utf8_chunk(s, i)
         IN  (IF c.valid THEN SubSeq(s, i, i + c.len - 1) ELSE <<239, 191, 189>>)
                 \o lossy_from(s, i + c.len)

from_utf8_lossy(s) == lossy_from(s, 1)

\* A decoded packet, or the decoding error.
Pkt(op) ==
    [ok |-> TRUE, op |-> op, filename |-> <<>>, mode |-> <<>>, options |-> EmptyMap,
     block_num |-> 0, data |-> <<>>, code |-> 0, msg |-> <<>>]

PktErr == [Pkt(0) EXCEPT !.ok = FALSE]

\* The option loop of parse_request and parse_oack: the key/value pairs of
\* fields from the (1-based) field k on; a later pair replaces an earlier one
\* of the same key, an empty key is skipped, a dangling field is ignored.
RECURSIVE parse_options(_, _, _)
parse_options(fields, k, acc) ==
    IF k + 1 > Len(fields) THEN [ok |-> TRUE, options |-> acc]
    ELSE IF ~from_utf8_ok(fields[k]) \/ ~from_utf8_ok(fields[k + 1])
    THEN [ok |-> FALSE, options |-> acc]
    ELSE LET key == to_ascii_lowercase(fields[k])
             val == fields[k + 1]
         IN  parse_options(fields, k + 2,
                           IF key # <<>> THEN (key :> val) @@ acc ELSE acc)

parse_request(buf, is_rrq) ==
    LET fields == split_nul(SubSeq(buf, 3, Len(buf)))
    IN  IF Len(fields) < 2 THEN PktErr
        ELSE IF ~from_utf8_ok(fields[1]) \/ ~from_utf8_ok(fields[2]) THEN PktErr
        ELSE IF fields[1] = <<>> THEN PktErr
        ELSE LET o == parse_options(fields, 3, EmptyMap)
             IN  IF ~o.ok THEN PktErr
                 ELSE [Pkt(IF is_rrq THEN OPCODE_RRQ ELSE OPCODE_WRQ) EXCEPT
                          !.filename = fields[1],
                          !.mode = to_ascii_lowercase(fields[2]),
                          !.options = o.options]

parse_data(buf) ==
    IF Len(buf) < 4 THEN PktErr
    ELSE [Pkt(OPCODE_DATA) EXCEPT !.block_num = from_be_bytes(buf[3], buf[4]),
                                  !.data = SubSeq(buf, 5, Len(buf))]

\* a decoder of ACK that takes four bytes and no more
parse_ack_Exact(buf) ==
    IF Len(buf) # 4 THEN PktErr
    ELSE [Pkt(OPCODE_ACK) EXCEPT !.block_num = from_be_bytes(buf[3], buf[4])]

parse_ack(buf) ==
    IF Len(buf) < 4 THEN PktErr
    ELSE [Pkt(OPCODE_ACK) EXCEPT !.block_num = from_be_bytes(buf[3], buf[4])]

parse_error(buf) ==
    IF Len(buf) < 5 THEN PktErr
    ELSE LET msg_bytes == SubSeq(buf, 5, Len(buf))
             end == IF \E k \in 1..Len(msg_bytes) : msg_bytes[k] = 0
                    THEN (CHOOSE k \in 1..Len(msg_bytes) :
                              msg_bytes[k] = 0 /\ \A j \in 1..(k - 1) : msg_bytes[j] # 0) - 1
                    ELSE Len(msg_bytes)
         IN  [Pkt(OPCODE_ERROR) EXCEPT !.code = from_be_bytes(buf[3], buf[4]),
                                       !.msg = from_utf8_lossy(SubSeq(msg_bytes, 1, end))]

parse_oack(buf) ==
    LET o == parse_options(split_nul(SubSeq(buf, 3, Len(buf))), 1, EmptyMap)
    IN  IF ~o.ok THEN PktErr ELSE [Pkt(OPCODE_OACK) EXCEPT !.options = o.options]

\* Packet::from_bytes
from_bytes(buf) ==
    IF Len(buf) < 2 THEN PktErr
    ELSE LET opcode == from_be_bytes(buf[1], buf[2])
         IN  CASE opcode = OPCODE_RRQ -> parse_request(buf, TRUE)
               [] opcode = OPCODE_WRQ -> parse_request(buf, FALSE)
               [] opcode = OPCODE_DATA -> parse_data(buf)
               [] opcode = OPCODE_ACK -> parse_ack(buf)
               [] opcode = OPCODE_ERROR -> parse_error(buf)
               [] opcode = OPCODE_OACK -> parse_oack(buf)
               [] OTHER -> PktErr

\* The option pairs of encode_request and of the OACK arm of to_bytes, written
\* in the order `keys` (a HashMap iterates in an unspecified order).
RECURSIVE encode_options(_, _)
encode_options(options, keys) ==
    IF keys = <<>> THEN <<>>
    ELSE Head(keys) \o <<0>> \o options[Head(keys)] \o <<0>>
             \o encode_options(options, Tail(keys))

encode_request(opcode, filename, mode, options, keys) ==
    to_be_bytes(opcode) \o filename \o <<0>> \o mode \o <<0>>
        \o encode_options(options, keys)

\* Packet::to_bytes, one operator per variant
data_to_bytes(block_num, data) == to_be_bytes(OPCODE_DATA) \o to_be_bytes(block_num) \o data

\* an encoding that writes opcode ERROR where ACK stands
ack_to_bytes_AsError(block_num) == to_be_bytes(OPCODE_ERROR) \o to_be_bytes(block_num)

ack_to_bytes(block_num) == to_be_bytes(OPCODE_ACK) \o to_be_bytes(block_num)

error_to_bytes(code, msg) == to_be_bytes(OPCODE_ERROR) \o to_be_bytes(code) \o msg \o <<0>>

oack_to_bytes(options, keys) == to_be_bytes(OPCODE_OACK) \o encode_options(options, keys)

\* Packet::to_bytes; a HashMap's pairs are written in the order keys
to_bytes(p, keys) ==
    CASE p.op \in {OPCODE_RRQ, OPCODE_WRQ} ->
             encode_request(p.op, p.filename, p.mode, p.options, keys)
      [] p.op = OPCODE_DATA -> data_to_bytes(p.block_num, p.data)
      [] p.op = OPCODE_ACK -> ack_to_bytes(p.block_num)
      [] p.op = OPCODE_ERROR -> error_to_bytes(p.code, p.msg)
      [] p.op = OPCODE_OACK -> oack_to_bytes(p.options, keys)

\* The orders in which a map's keys can be iterated.
KeyOrders(options) ==
    LET n == Cardinality(DOMAIN options)
    IN  { s \in [1..n -> DOMAIN options] : \A a, b \in 1..n : a # b => s[a] # s[b] }

(***************************************************************************)
(* server.rs: the datagram-size probe and option negotiation.              *)
(***************************************************************************)
\* the probe's candidate sizes, largest first
candidates == << MAX_BLKSIZE + 4, 32768, 16384, 9216, 8192, 4096, 1024, 516 >>

\* A kernel as the probe sees it: whether the socket can be created and
\* bound, and for each candidate size the raw OS error of send_to (0 when the
\* send succeeds or the error carries no OS code).
\* a probe that takes a size only when its send succeeds
RECURSIVE probe_from_Strict(_, _)
probe_from_Strict(kernel_, k) ==
    IF k > Len(candidates) THEN BLOCK_SIZE
    ELSE IF kernel_.send[candidates[k]] # 0 THEN probe_from_Strict(kernel_, k + 1)
    ELSE candidates[k] - 4

RECURSIVE probe_from(_, _)
probe_from(kernel_, k) ==
    IF k > Len(candidates) THEN BLOCK_SIZE
    ELSE LET size == candidates[k]
             raw == kernel_.send[size]
         IN  IF raw = 40 \/ raw = 55 \/ raw = 90
             THEN probe_from(kernel_, k + 1)
             ELSE IF size >= 4 THEN size - 4 ELSE 0

detect_max_blksize(kernel_) ==
    IF ~kernel_.socket_ok THEN BLOCK_SIZE
    ELSE IF ~kernel_.bind_ok THEN BLOCK_SIZE
    ELSE probe_from(kernel_, 1)

CandidateSet == { candidates[k] : k \in 1..Len(candidates) }

\* the kernels of the model: one that takes every size, one that rejects
\* datagrams above 9216 bytes with EMSGSIZE (40)
KernelProfiles ==
    { [socket_ok |-> TRUE, bind_ok |-> TRUE, send |-> [c \in CandidateSet |-> 0]],
      [socket_ok |-> TRUE, bind_ok |-> TRUE,
       send |-> [c \in CandidateSet |-> IF c > 9216 THEN 40 ELSE 0]] }

\* str::parse::<usize>: an optional '+', then one or more decimal digits.
\* Texts of the model have at most 9 digits, so the value never overflows.
RECURSIVE digits_value(_, _)
digits_value(s, acc) ==
    IF s = <<>> THEN acc ELSE digits_value(Tail(s), acc * 10 + (Head(s) - 48))

parse_usize(s) ==
    LET d == IF s # <<>> /\ Head(s) = 43 THEN Tail(s) ELSE s
    IN  IF d = <<>> \/ Len(d) > 9 \/ \E k \in 1..Len(d) : d[k] \notin 48..57
        THEN [ok |-> FALSE, value |-> 0]
        ELSE [ok |-> TRUE, value |-> digits_value(d, 0)]

\* usize::to_string
RECURSIVE to_string(_)
to_string(n) ==
    IF n < 10 THEN << 48 + n >> ELSE to_string(n \div 10) \o << 48 + (n % 10) >>

\* a minimum that returns its first argument: no cap
Min_First(a, b) == a

Min(a, b) == IF a <= b THEN a ELSE b

\* a negotiation that echoes the size as the client wrote it
negotiate_options_Echo(client_options, os_max_) ==
    LET req == IF TXT_blksize \in DOMAIN client_options
               THEN parse_usize(client_options[TXT_blksize])
               ELSE [ok |-> FALSE, value |-> 0]
        take == req.ok /\ req.value >= MIN_BLKSIZE /\ req.value <= MAX_BLKSIZE
        blksize == IF take THEN Min(req.value, os_max_) ELSE BLOCK_SIZE
        acked1 == IF take THEN (TXT_blksize :> client_options[TXT_blksize]) ELSE EmptyMap
        acked2 == IF TXT_tsize \in DOMAIN client_options
                  THEN (TXT_tsize :> TXT_zero) @@ acked1 ELSE acked1
    IN  [blksize |-> blksize, acked |-> acked2]

negotiate_options(client_options, os_max_) ==
    LET req == IF TXT_blksize \in DOMAIN client_options
               THEN parse_usize(client_options[TXT_blksize])
               ELSE [ok |-> FALSE, value |-> 0]
        take == req.ok /\ req.value >= MIN_BLKSIZE /\ req.value <= MAX_BLKSIZE
        blksize == IF take THEN Min(req.value, os_max_) ELSE BLOCK_SIZE
        acked1 == IF take THEN (TXT_blksize :> to_string(blksize)) ELSE EmptyMap
        acked2 == IF TXT_tsize \in DOMAIN client_options
                  THEN (TXT_tsize :> TXT_zero) @@ acked1 ELSE acked1
    IN  [blksize |-> blksize, acked |-> acked2]

(***************************************************************************)
(* The file system: a function from absolute paths (sequences of           *)
(* components) to nodes.  A node is a directory, a regular file, or a      *)
(* symbolic link with its absolute target.  The content of a regular file  *)
(* is `hole` zero bytes followed by the bytes of `data`.                   *)
(***************************************************************************)
DirNode == [kind |-> "dir", data |-> <<>>]

FileNode(data) == [kind |-> "file", data |-> data, hole |-> 0]

\* a file that begins with a hole
SparseNode(hole, data) == [kind |-> "file", data |-> data, hole |-> hole]

Zeros(n) == [k \in 1..n |-> 0]

file_len(node) == node.hole + Len(node.data)

LinkNode(target) == [kind |-> "link", data |-> <<>>, target |-> target]

\* the served directory, "/srv", canonical when the server starts (main.rs
\* canonicalizes it)
ServedDir == << <<115, 114, 118>> >>

\* Path resolution as the kernel does it: from the resolved directory cur,
\* walk the components of rest; a symbolic link restarts the walk at its
\* target, at most fuel times; a missing component, or a regular file that
\* is not the last component, fails.  kind is the io::ErrorKind of a failure.
RECURSIVE resolve(_, _, _, _)
resolve(fsys, cur, rest, fuel) ==
    IF rest = <<>> THEN [ok |-> TRUE, path |-> cur, kind |-> ""]
    ELSE LET next == Append(cur, Head(rest))
         IN  IF next \notin DOMAIN fsys
             THEN [ok |-> FALSE, path |-> <<>>, kind |-> "NotFound"]
             ELSE IF fsys[next].kind = "link"
             THEN IF fuel = 0 THEN [ok |-> FALSE, path |-> <<>>, kind |-> "FilesystemLoop"]
                  ELSE resolve(fsys, <<>>, fsys[next].target \o Tail(rest), fuel - 1)
             ELSE IF fsys[next].kind = "file" /\ Tail(rest) # <<>>
             THEN [ok |-> FALSE, path |-> <<>>, kind |-> "NotADirectory"]
             ELSE resolve(fsys, next, Tail(rest), fuel)

\* a prefix test that every path passes
starts_with_Any(p, prefix) == TRUE

starts_with(p, prefix) ==
    Len(prefix) <= Len(p) /\ SubSeq(p, 1, Len(prefix)) = prefix

\* Path::canonicalize: the path with its symbolic links resolved; fails for
\* a path that does not resolve
canonicalize(fsys, p) == resolve(fsys, <<>>, p, MaxLinks)

\* Path::exists: the path resolves, symbolic links followed
exists(fsys, p) == canonicalize(fsys, p).ok

\* Path::is_dir: the path resolves to a directory
is_dir(fsys, p) == exists(fsys, p) /\ fsys[canonicalize(fsys, p).path].kind = "dir"

\* Path::parent of a path that has one
parent_of(p) == SubSeq(p, 1, Len(p) - 1)

\* mkdir(2): the parent of p is resolved, its last component is not; kind is
\* the io::ErrorKind of a failure, fs the file system afterwards
mkdir(fsys, p) ==
    LET up == IF p = <<>> THEN canonicalize(fsys, <<>>) ELSE canonicalize(fsys, parent_of(p))
    IN  IF p = <<>> THEN [ok |-> FALSE, kind |-> "AlreadyExists", fs |-> fsys]
        ELSE IF ~up.ok THEN [ok |-> FALSE, kind |-> up.kind, fs |-> fsys]
        ELSE IF fsys[up.path].kind # "dir"
        THEN [ok |-> FALSE, kind |-> "NotADirectory", fs |-> fsys]
        ELSE IF Append(up.path, p[Len(p)]) \in DOMAIN fsys
        THEN [ok |-> FALSE, kind |-> "AlreadyExists", fs |-> fsys]
        ELSE [ok |-> TRUE, kind |-> "", fs |-> (Append(up.path, p[Len(p)]) :> DirNode) @@ fsys]

\* a create_dir_all that makes nothing
create_dir_all_Skip(fsys, p) == [ok |-> TRUE, fs |-> fsys]

\* fs::create_dir_all (line 483): mkdir; when a parent is missing, the
\* parents first and mkdir again; an error of mkdir is no error when the
\* path is a directory.  What it made stays when it fails later.
RECURSIVE create_dir_all(_, _)
create_dir_all(fsys, p) ==
    LET first == mkdir(fsys, p)
    IN  IF first.ok THEN [ok |-> TRUE, fs |-> first.fs]
        ELSE IF first.kind # "NotFound" THEN [ok |-> is_dir(fsys, p), fs |-> fsys]
        ELSE IF p = <<>> THEN [ok |-> FALSE, fs |-> fsys]
        ELSE LET up == create_dir_all(fsys, parent_of(p))
                 again == mkdir(up.fs, p)
             IN  IF ~up.ok THEN [ok |-> FALSE, fs |-> up.fs]
                 ELSE IF again.ok THEN [ok |-> TRUE, fs |-> again.fs]
                 ELSE [ok |-> is_dir(up.fs, p), fs |-> up.fs]

\* File::create (line 487), open(2) with O_CREAT and O_TRUNC: the path is
\* resolved, its last component too; a link whose target is missing has the
\* target created.  path is the place of the file that is open afterwards.
RECURSIVE file_create(_, _, _)
file_create(fsys, p, fuel) ==
    LET up == IF p = <<>> THEN canonicalize(fsys, <<>>) ELSE canonicalize(fsys, parent_of(p))
        place == IF p = <<>> THEN <<>> ELSE Append(up.path, p[Len(p)])
    IN  IF p = <<>> \/ ~up.ok THEN [ok |-> FALSE, path |-> <<>>]
        ELSE IF fsys[up.path].kind # "dir" THEN [ok |-> FALSE, path |-> <<>>]
        ELSE IF place \notin DOMAIN fsys THEN [ok |-> TRUE, path |-> place]
        ELSE IF fsys[place].kind = "link"
        THEN IF fuel = 0 THEN [ok |-> FALSE, path |-> <<>>]
             ELSE file_create(fsys, fsys[place].target, fuel - 1)
        ELSE IF fsys[place].kind = "dir" THEN [ok |-> FALSE, path |-> <<>>]
        ELSE [ok |-> TRUE, path |-> place]

\* a replace that leaves the backslashes in place
replace_backslash_Keep(filename) == filename

\* filename.replace('\\', "/")
replace_backslash(filename) ==
    [k \in 1..Len(filename) |-> IF filename[k] = 92 THEN 47 ELSE filename[k]]

\* server.rs sanitize_path
SanErr(text) == [ok |-> FALSE, path |-> <<>>, err |-> text]

\* the deepest existing proper ancestor of p, as the parent walk finds it
RECURSIVE existing_ancestor(_, _)
existing_ancestor(fsys, p) ==
    IF p = <<>> THEN [found |-> FALSE, path |-> <<>>]
    ELSE LET parent == SubSeq(p, 1, Len(p) - 1)
         IN  IF exists(fsys, parent) THEN [found |-> TRUE, path |-> parent]
             ELSE existing_ancestor(fsys, parent)

sanitize_path(fsys, dir, filename) ==
    LET normalized == replace_backslash(filename)
        comps == split_on(normalized, 47)
        clean == SelectSeq(comps, LAMBDA c : c # <<>> /\ c # <<46>>)
        candidate == dir \o clean
        canonical_dir == canonicalize(fsys, dir)
    IN  IF normalized # <<>> /\ normalized[1] = 47
        THEN SanErr("absolute paths are not allowed")
        ELSE IF \E k \in 1..Len(comps) : comps[k] = <<46, 46>>
        THEN SanErr("path traversal is not allowed")
        ELSE IF clean = <<>>
        THEN SanErr("invalid filename")
        ELSE IF ~canonical_dir.ok
        THEN SanErr("cannot canonicalize served directory")
        ELSE IF exists(fsys, candidate)
        THEN LET canonical == canonicalize(fsys, candidate)
             IN  IF ~canonical.ok THEN SanErr("cannot canonicalize path")
                 ELSE IF ~starts_with(canonical.path, canonical_dir.path)
                 THEN SanErr("path escapes served directory")
                 ELSE [ok |-> TRUE, path |-> canonical.path, err |-> ""]
        ELSE LET a == existing_ancestor(fsys, candidate)
             IN  IF ~a.found THEN SanErr("path escapes served directory")
                 ELSE IF ~starts_with(canonicalize(fsys, a.path).path, canonical_dir.path)
                 THEN SanErr("path escapes served directory")
                 ELSE [ok |-> TRUE, path |-> candidate, err |-> ""]

(***************************************************************************)
(* State.                                                                  *)
(***************************************************************************)
VARIABLES
    kernel,     \* the host: whether a UDP socket can be made and bound, and the
                \* OS error of a send of each size
    os_max,     \* MAX_SENDABLE_BLKSIZE, set by the probe before the listener loops
    fs,         \* the file system
    listening,  \* the listener loop of run is running
    next_id,    \* run's next_id
    sess,       \* the session tasks, by id: the variables of handle_rrq / handle_wrq
    events,     \* the event channel: sent by the server, not yet taken by the observer
    out,        \* by session id, the datagrams its socket has sent, a repeated
                \* datagram listed once
    ntx,        \* by session id, how often the last datagram of out was sent
    stored,     \* by place, the bytes of the upload that completed on it, while no
                \* later upload has created the file anew
    codec       \* a packet value on the stack of a caller of the codec: the
                \* value handed to to_bytes, the bytes, and what from_bytes
                \* returned for them

vars == << kernel, os_max, fs, listening, next_id, sess, events, out, ntx, stored, codec >>

\* the server uses the codec inside its steps; no caller holds a value
CodecIdle == [stage |-> "idle", pkt |-> PktErr, buf |-> <<>>, got |-> PktErr]

\* the peers of the model
Peers == { 1 }

(***************************************************************************)
(* Events (ServerEvent).  One record shape for all five variants.          *)
(***************************************************************************)
NoError == [text |-> "", code |-> 0, msg |-> <<>>]

Ev(type, id) ==
    [type |-> type, id |-> id, text |-> "", kind |-> "", filename |-> <<>>,
     total_bytes |-> 0, transferred |-> 0, size_known |-> FALSE, error |-> NoError]

Log(text) == [Ev("Log", 0) EXCEPT !.text = text]

TransferStarted(id, kind, filename, total_bytes, size_known) ==
    [Ev("TransferStarted", id) EXCEPT !.kind = kind, !.filename = filename,
        !.total_bytes = total_bytes, !.size_known = size_known]

TransferProgress(id, transferred, total_bytes) ==
    [Ev("TransferProgress", id) EXCEPT !.transferred = transferred,
                                       !.total_bytes = total_bytes]

TransferComplete(id) == Ev("TransferComplete", id)

TransferFailed(id, error) == [Ev("TransferFailed", id) EXCEPT !.error = error]

Err(text) == [text |-> text, code |-> 0, msg |-> <<>>]

(***************************************************************************)
(* A session task: the arguments and local variables of its handler and    *)
(* the place it has reached; id is the id the listener gave it, file the   *)
(* place in the file system of the file it has open.                       *)
(* last_in, acks and rcvd record what the                                  *)
(* session has received: the result of its last receive, the block numbers *)
(* of the ACK datagrams it has received and the payloads of the DATA       *)
(* packets it accepted, in order.                                          *)
(***************************************************************************)
NoRecv == [res |-> "none", dg |-> <<>>]

NewSession(kind, peer, pkt) ==
    [id |-> 0, kind |-> kind, pc |-> "spawned", peer |-> peer, filename |-> pkt.filename,
     options |-> pkt.options, path |-> <<>>, file |-> <<>>, blksize |-> 0, oack_options |-> EmptyMap,
     total_bytes |-> 0, pkt_bytes |-> <<>>, block_num |-> 0, expected_block |-> 0,
     retries |-> 0, pos |-> 0, transferred |-> 0, payload |-> <<>>,
     last_in |-> NoRecv, acks |-> {}, rcvd |-> <<>>]

\* the task has returned: its frame, socket and file handle are gone
Exited(s) ==
    [NewSession("", s.peer, [filename |-> <<>>, options |-> EmptyMap])
        EXCEPT !.pc = "exited", !.id = s.id]

Ids == 1..Len(sess)

Terminated(s) == s.pc \in {"done", "failed"}

\* a step of two in place of wrapping_add(1)
wrapping_add1_Two(b) == (b + 2) % U16_MOD

wrapping_add1(b) == (b + 1) % U16_MOD

\* a subtraction that stops at 0
wrapping_sub1_Saturating(b) == IF b = 0 THEN 0 ELSE b - 1

wrapping_sub1(b) == (b + U16_MOD - 1) % U16_MOD

\* sock.send(dg) on the session's socket
Send(i, dg) ==
    LET again == out[i] # <<>> /\ out[i][Len(out[i])] = dg
    IN  /\ out' = [out EXCEPT ![i] = IF again THEN @ ELSE Append(@, dg)]
        /\ ntx' = [ntx EXCEPT ![i] = IF again THEN @ + 1 ELSE 1]

\* The spawned task's wrapper in run: the handler returned Err(e).
Fail(i, s, error) ==
    /\ sess' = [sess EXCEPT ![i] = [s EXCEPT !.pc = "failed"]]
    /\ events' = events \o << TransferFailed(i, error),
                             Log(IF sess[i].kind = "rrq" THEN "RRQ error" ELSE "WRQ error") >>

\* an error text that leaves out what the peer reported
ClientError_Bare(pkt) == [text |-> "client error", code |-> 0, msg |-> <<>>]

\* anyhow!("client error {code}: {msg}") (lines 350, 393, 512)
ClientError(pkt) == [text |-> "client error", code |-> pkt.code, msg |-> pkt.msg]

\* What timeout(TIMEOUT, sock.recv(..)) can yield: the deadline passes, the
\* socket fails, or a datagram arrives.
RecvTimeout == [res |-> "timeout", dg |-> <<>>]

RecvError == [res |-> "err", dg |-> <<>>]

Recv(dg) == [res |-> "data", dg |-> dg]

(***************************************************************************)
(* The listener (run).                                                     *)
(***************************************************************************)
\* "f" and "../f"
FileNames == { <<102>>, <<46, 46, 47, 102>> }

\* no option, or blksize = "8"
OptionSets == { EmptyMap, (TXT_blksize :> <<56>>) }

\* what peers send to the listener's port: the requests, a truncated
\* datagram, and a stray ACK, DATA, ERROR and OACK
ListenerDatagrams ==
    UNION { { encode_request(op, f, TXT_octet, o, k) :
                 op \in {OPCODE_RRQ, OPCODE_WRQ}, f \in FileNames, k \in KeyOrders(o) } :
            o \in OptionSets }
    \cup { <<0>>, ack_to_bytes(0), data_to_bytes(1, <<102>>), error_to_bytes(0, <<88>>),
           oack_to_bytes(EmptyMap, <<>>) }

\* a counter that stays where it is
bump_id_Stuck(n) == n

\* next_id += 1 (lines 246, 258)
bump_id(n) == n + 1

\* a listener that gives a number to every datagram
Listen_Numbering(dg, peer) ==
    LET pkt == from_bytes(dg)
    IN  /\ listening
        /\ next_id' = bump_id(next_id)
        /\ IF pkt.ok /\ pkt.op \in {OPCODE_RRQ, OPCODE_WRQ}
           THEN /\ Len(sess) < MaxSessions
                /\ sess' = Append(sess,
                       [NewSession(IF pkt.op = OPCODE_RRQ THEN "rrq" ELSE "wrq", peer, pkt)
                           EXCEPT !.id = next_id])
                /\ out' = Append(out, <<>>)
                /\ ntx' = Append(ntx, 0)
                /\ UNCHANGED events
           ELSE /\ next_id < 2 * MaxSessions
                /\ events' = Append(events, Log(IF pkt.ok THEN "unexpected packet on listener"
                                                ELSE "bad packet"))
                /\ UNCHANGED << sess, out, ntx >>
        /\ UNCHANGED << kernel, codec, os_max, stored, fs, listening >>

\* a listener that serves one request of a peer for a file at a time
Listen_OncePerPeer(dg, peer) ==
    LET pkt == from_bytes(dg)
    IN  /\ listening
        /\ IF pkt.ok /\ pkt.op \in {OPCODE_RRQ, OPCODE_WRQ}
           THEN /\ Len(sess) < MaxSessions
                /\ ~\E i \in 1..Len(sess) :
                       /\ sess[i].pc \notin {"done", "failed", "exited"}
                       /\ sess[i].peer = peer
                       /\ sess[i].filename = pkt.filename
                /\ sess' = Append(sess,
                       [NewSession(IF pkt.op = OPCODE_RRQ THEN "rrq" ELSE "wrq", peer, pkt)
                           EXCEPT !.id = next_id])
                /\ out' = Append(out, <<>>)
                /\ ntx' = Append(ntx, 0)
                /\ next_id' = bump_id(next_id)
                /\ UNCHANGED events
           ELSE /\ events' = Append(events, Log(IF pkt.ok THEN "unexpected packet on listener"
                                                ELSE "bad packet"))
                /\ UNCHANGED << sess, out, ntx, next_id >>
        /\ UNCHANGED << kernel, codec, os_max, stored, fs, listening >>

\* lines 233-273: one datagram on the listener socket
Listen(dg, peer) ==
    LET pkt == from_bytes(dg)
    IN  /\ listening
        /\ IF pkt.ok /\ pkt.op \in {OPCODE_RRQ, OPCODE_WRQ}
           THEN /\ Len(sess) < MaxSessions
                /\ sess' = Append(sess,
                       [NewSession(IF pkt.op = OPCODE_RRQ THEN "rrq" ELSE "wrq", peer, pkt)
                           EXCEPT !.id = next_id])
                /\ out' = Append(out, <<>>)
                /\ ntx' = Append(ntx, 0)
                /\ next_id' = bump_id(next_id)
                /\ UNCHANGED events
           ELSE /\ events' = Append(events, Log(IF pkt.ok THEN "unexpected packet on listener"
                                                ELSE "bad packet"))
                /\ UNCHANGED << sess, out, ntx, next_id >>
        /\ UNCHANGED << kernel, codec, os_max, stored, fs, listening >>

\* a shutdown that takes the running tasks with it
Shutdown_Abort ==
    /\ listening
    /\ listening' = FALSE
    /\ events' = Append(events, Log("Shutting down"))
    /\ sess' = [i \in DOMAIN sess |-> Exited(sess[i])]
    /\ UNCHANGED << kernel, codec, os_max, stored, fs, next_id, out, ntx >>

\* lines 275-278: the listener's select takes the arm of shutdown.changed()
Shutdown ==
    /\ listening
    /\ listening' = FALSE
    /\ events' = Append(events, Log("Shutting down"))
    /\ UNCHANGED << kernel, codec, os_max, stored, fs, next_id, sess, out, ntx >>

\* line 234: recv_from on the listener socket returns an error, `result?`
\* returns it from run, and main logs it (main.rs 70-74)
ListenRecvError ==
    /\ listening
    /\ listening' = FALSE
    /\ events' = Append(events, Log("Server fatal"))
    /\ UNCHANGED << kernel, codec, os_max, stored, fs, next_id, sess, out, ntx >>

(***************************************************************************)
(* handle_rrq.                                                             *)
(***************************************************************************)
\* fs::metadata(path).len(): the length of a file; of a directory, whatever
\* the file system reports
metadata_len(fsys, p) ==
    IF fsys[p].kind = "file" THEN { file_len(fsys[p]) } ELSE { 0, 4096 }

\* a caller that leaves the tsize value as negotiate_options set it
fill_tsize_Keep(acked, total_bytes) == acked

\* lines 307-309: fill in tsize if the client requested it
fill_tsize(acked, total_bytes) ==
    IF TXT_tsize \in DOMAIN acked
    THEN (TXT_tsize :> to_string(total_bytes)) @@ acked
    ELSE acked

\* lines 297-328: sanitize, stat, negotiate, TransferStarted
RrqSetup(i) ==
    LET s == sess[i]
        sp == sanitize_path(fs, ServedDir, s.filename)
        n == negotiate_options(s.options, os_max)
    IN  /\ s.kind = "rrq" /\ s.pc = "spawned"
        /\ IF ~sp.ok THEN Fail(i, s, Err(sp.err))
           ELSE IF ~exists(fs, sp.path) THEN Fail(i, s, Err("cannot read"))
           ELSE \E total \in metadata_len(fs, sp.path) :
                /\ sess' = [sess EXCEPT ![i] = [s EXCEPT
                       !.pc = "bind", !.path = sp.path, !.total_bytes = total,
                       !.blksize = n.blksize,
                       !.oack_options = fill_tsize(n.acked, total)]]
                /\ events' = events \o << Log("RRQ"),
                                          TransferStarted(i, "Download", s.filename, total, TRUE) >>
        /\ UNCHANGED << kernel, codec, os_max, stored, fs, listening, next_id, out, ntx >>

\* a test that finds every option map empty
is_empty_Always(options) == TRUE

\* oack_options.is_empty() (lines 335, 470)
is_empty(options) == DOMAIN options = {}

\* bind_transfer_socket succeeded (its failure is an IoError)
Bind(i) ==
    LET s == sess[i]
    IN  /\ s.pc = "bind"
        /\ sess' = [sess EXCEPT ![i].pc =
                       IF s.kind = "wrq" THEN "ack0"
                       ELSE IF ~is_empty(s.oack_options) THEN "oack_send" ELSE "open"]
        /\ UNCHANGED << kernel, codec, os_max, stored, fs, listening, next_id, events, out, ntx >>

\* lines 335-343: build the OACK and send it for the first time
RrqSendOack(i, keys) ==
    LET s == sess[i]
        oack_bytes == oack_to_bytes(s.oack_options, keys)
    IN  /\ s.kind = "rrq" /\ s.pc = "oack_send"
        /\ keys \in KeyOrders(s.oack_options)
        /\ Send(i, oack_bytes)
        /\ sess' = [sess EXCEPT ![i] = [s EXCEPT !.pc = "oack_wait", !.pkt_bytes = oack_bytes,
                                                 !.retries = 0]]
        /\ UNCHANGED << kernel, codec, os_max, stored, fs, listening, next_id, events >>

\* session s after its receive returned `in`
Noted(s, in) ==
    LET pkt == from_bytes(in.dg)
    IN  [s EXCEPT !.last_in = in,
                  !.acks = IF in.res = "data" /\ pkt.ok /\ pkt.op = OPCODE_ACK
                           THEN @ \cup {pkt.block_num} ELSE @]

\* a test that never gives up
RetriesExhausted_Never(retries) == FALSE

\* a test that gives up one timeout earlier
RetriesExhausted_Early(retries) == retries >= MAX_RETRIES

\* retries > MAX_RETRIES (lines 358, 401, 520)
RetriesExhausted(retries) == retries > MAX_RETRIES

\* an arm that takes any ACK, whatever its block number
AckMatches_Any(pkt, block_num) == pkt.op = OPCODE_ACK

\* the arm `Packet::ACK { block_num: bn } if bn == block_num` (lines 348, 391)
AckMatches(pkt, block_num) == pkt.op = OPCODE_ACK /\ pkt.block_num = block_num

\* lines 344-362: one result of the receive in the OACK loop, up to the next
\* receive
RrqOackOnRecv(i, in, s, pkt) ==
        /\ s.kind = "rrq" /\ s.pc = "oack_wait"
        /\ CASE in.res = "timeout" ->
                   IF RetriesExhausted(s.retries + 1)
                   THEN /\ Fail(i, s, Err("timeout waiting for OACK acknowledgment"))
                        /\ UNCHANGED << out, ntx >>
                   ELSE /\ sess' = [sess EXCEPT ![i] = [s EXCEPT !.retries = s.retries + 1]]
                        /\ Send(i, s.pkt_bytes)
                        /\ UNCHANGED events
             [] in.res = "err" -> Fail(i, s, Err("io")) /\ UNCHANGED << out, ntx >>
             [] OTHER ->
                   IF ~pkt.ok
                   THEN Fail(i, s, Err("malformed packet")) /\ UNCHANGED << out, ntx >>
                   ELSE IF AckMatches(pkt, 0)
                   THEN /\ sess' = [sess EXCEPT ![i] = [s EXCEPT !.pc = "open"]]
                        /\ UNCHANGED << events, out, ntx >>
                   ELSE IF pkt.op = OPCODE_ERROR
                   THEN /\ Fail(i, s, ClientError(pkt))
                        /\ UNCHANGED << out, ntx >>
                   ELSE /\ sess' = [sess EXCEPT ![i] = s]
                        /\ Send(i, s.pkt_bytes)
                        /\ UNCHANGED events
        /\ UNCHANGED << kernel, codec, os_max, stored, fs, listening, next_id >>

\* an OACK loop that takes every ACK for ACK 0
RrqOackWait_AnyAck(i, in) ==
    RrqOackOnRecv(i, in, Noted(sess[i], in), [from_bytes(in.dg) EXCEPT !.block_num = 0])

\* the OACK loop: the session notes what its receive returned and acts on it
RrqOackWait(i, in) == RrqOackOnRecv(i, in, Noted(sess[i], in), from_bytes(in.dg))

\* lines 367-372: File::open and the loop's variables
RrqOpen(i) ==
    LET s == sess[i]
    IN  /\ s.kind = "rrq" /\ s.pc = "open"
        /\ IF ~exists(fs, s.path) THEN Fail(i, s, Err("cannot open"))
           ELSE /\ sess' = [sess EXCEPT ![i] = [s EXCEPT !.pc = "read", !.block_num = 1,
                                  !.file = canonicalize(fs, s.path).path,
                                  !.transferred = 0, !.pos = 0]]
                /\ UNCHANGED events
        /\ UNCHANGED << kernel, codec, os_max, stored, fs, listening, next_id, out, ntx >>

\* a read that leaves the last byte of the buffer unused
read_at_Less(data, pos, n) ==
    IF pos >= Len(data) THEN <<>>
    ELSE SubSeq(data, pos + 1, pos + Min(n - 1, Len(data) - pos))

\* file.read(&mut buf) at position pos of a file that holds data, with a
\* buffer of n bytes: the bytes read
read_at(data, pos, n) ==
    IF pos >= Len(data) THEN <<>> ELSE SubSeq(data, pos + 1, pos + Min(n, Len(data) - pos))

\* the read on a file node: the bytes of a hole read as zeros
file_read(node, pos, n) ==
    IF pos >= node.hole THEN read_at(node.data, pos - node.hole, n)
    ELSE read_at(Zeros(node.hole - pos) \o node.data, 0, n)

\* lines 375-386: read the next block, build the DATA packet and send it for
\* the first time
RrqRead(i) ==
    LET s == sess[i]
        payload == file_read(fs[s.file], s.pos, s.blksize)
        bytes_read == Len(payload)
        pkt_bytes == to_be_bytes(3) \o to_be_bytes(s.block_num) \o payload
    IN  /\ s.kind = "rrq" /\ s.pc = "read"
        /\ IF fs[s.file].kind # "file"
           THEN Fail(i, s, Err("io")) /\ UNCHANGED << out, ntx >>
           ELSE /\ sess' = [sess EXCEPT ![i] = [s EXCEPT !.pc = "wait", !.payload = payload,
                               !.pos = s.pos + bytes_read, !.pkt_bytes = pkt_bytes,
                               !.retries = 0]]
                /\ Send(i, pkt_bytes)
                /\ UNCHANGED events
        /\ UNCHANGED << kernel, codec, os_max, stored, fs, listening, next_id >>

\* an end-of-transfer test that a full block passes as well
EndOfTransfer_Full(bytes_read, blksize) == bytes_read <= blksize

\* line 416: a block shorter than blksize signals end-of-transfer
EndOfTransfer(bytes_read, blksize) == bytes_read < blksize

\* a completion that reports the last progress after TransferComplete
RrqAcked_Late(i, s) ==
    LET bytes_read == Len(s.payload)
        transferred == s.transferred + bytes_read
        progress == TransferProgress(i, transferred, s.total_bytes)
    IN  IF EndOfTransfer(bytes_read, s.blksize)
        THEN /\ sess' = [sess EXCEPT ![i] = [s EXCEPT !.pc = "done",
                                                     !.transferred = transferred]]
             /\ events' = events \o << TransferComplete(i), progress, Log("RRQ complete") >>
        ELSE /\ sess' = [sess EXCEPT ![i] = [s EXCEPT !.pc = "read",
                            !.transferred = transferred,
                            !.block_num = wrapping_add1(s.block_num)]]
             /\ events' = Append(events, progress)

\* lines 408-426: the block was acknowledged
RrqAcked(i, s) ==
    LET bytes_read == Len(s.payload)
        transferred == s.transferred + bytes_read
        progress == TransferProgress(i, transferred, s.total_bytes)
    IN  IF EndOfTransfer(bytes_read, s.blksize)
        THEN /\ sess' = [sess EXCEPT ![i] = [s EXCEPT !.pc = "done",
                                                     !.transferred = transferred]]
             /\ events' = events \o << progress, TransferComplete(i), Log("RRQ complete") >>
        ELSE /\ sess' = [sess EXCEPT ![i] = [s EXCEPT !.pc = "read",
                            !.transferred = transferred,
                            !.block_num = wrapping_add1(s.block_num)]]
             /\ events' = Append(events, progress)

\* lines 387-405: one result of the receive in the DATA loop, up to the next
\* receive
RrqOnRecv(i, in, s, pkt) ==
        /\ s.kind = "rrq" /\ s.pc = "wait"
        /\ CASE in.res = "timeout" ->
                   IF RetriesExhausted(s.retries + 1)
                   THEN /\ Fail(i, s, Err("timeout after 10 retries"))
                        /\ UNCHANGED << out, ntx >>
                   ELSE /\ sess' = [sess EXCEPT ![i] = [s EXCEPT !.retries = s.retries + 1]]
                        /\ Send(i, s.pkt_bytes)
                        /\ UNCHANGED events
             [] in.res = "err" -> Fail(i, s, Err("io")) /\ UNCHANGED << out, ntx >>
             [] OTHER ->
                   IF ~pkt.ok
                   THEN Fail(i, s, Err("malformed packet")) /\ UNCHANGED << out, ntx >>
                   ELSE IF AckMatches(pkt, s.block_num)
                   THEN RrqAcked(i, s) /\ UNCHANGED << out, ntx >>
                   ELSE IF pkt.op = OPCODE_ERROR
                   THEN /\ Fail(i, s, ClientError(pkt))
                        /\ UNCHANGED << out, ntx >>
                   ELSE /\ sess' = [sess EXCEPT ![i] = s]
                        /\ Send(i, s.pkt_bytes)
                        /\ UNCHANGED events
        /\ UNCHANGED << kernel, codec, os_max, stored, fs, listening, next_id >>

\* a DATA loop that counts a packet it does not wait for as a timeout
RrqWait_Lost(i, in) ==
    LET pkt == from_bytes(in.dg)
        other == in.res = "data" /\ pkt.ok /\ pkt.op # OPCODE_ERROR
                 /\ ~AckMatches(pkt, sess[i].block_num)
    IN  RrqOnRecv(i, IF other THEN RecvTimeout ELSE in, Noted(sess[i], in), pkt)

\* a DATA loop that on a timeout neither sends again nor counts up to the cap
RrqWait_Patient(i, in) ==
    IF in.res = "timeout"
    THEN /\ sess[i].kind = "rrq" /\ sess[i].pc = "wait"
         /\ sess' = [sess EXCEPT ![i] = [Noted(sess[i], in) EXCEPT
                                            !.retries = (sess[i].retries + 1) % 2]]
         /\ UNCHANGED << kernel, codec, os_max, stored, fs, listening, next_id, events,
                         out, ntx >>
    ELSE RrqOnRecv(i, in, Noted(sess[i], in), from_bytes(in.dg))

\* the DATA loop: the session notes what its receive returned and acts on it
RrqWait(i, in) == RrqOnRecv(i, in, Noted(sess[i], in), from_bytes(in.dg))

(***************************************************************************)
(* handle_wrq.                                                             *)
(***************************************************************************)
\* a setup that goes on to bind whatever the sanitizer returned
WrqSetup_Unchecked(i) ==
    LET s == sess[i]
        sp == sanitize_path(fs, ServedDir, s.filename)
        n == negotiate_options(s.options, os_max)
    IN  /\ s.kind = "wrq" /\ s.pc = "spawned"
        /\ sess' = [sess EXCEPT ![i] = [s EXCEPT !.pc = "bind",
                        !.path = IF sp.ok THEN sp.path ELSE ServedDir \o << s.filename >>,
                        !.blksize = n.blksize, !.oack_options = n.acked]]
        /\ events' = events \o << Log("WRQ"),
                                  TransferStarted(i, "Upload", s.filename, 0, FALSE) >>
        /\ UNCHANGED << kernel, codec, os_max, stored, fs, listening, next_id, out, ntx >>

\* lines 442-464: sanitize, negotiate, TransferStarted
WrqSetup(i) ==
    LET s == sess[i]
        sp == sanitize_path(fs, ServedDir, s.filename)
        n == negotiate_options(s.options, os_max)
    IN  /\ s.kind = "wrq" /\ s.pc = "spawned"
        /\ IF ~sp.ok THEN Fail(i, s, Err(sp.err))
           ELSE /\ sess' = [sess EXCEPT ![i] = [s EXCEPT !.pc = "bind", !.path = sp.path,
                               !.blksize = n.blksize, !.oack_options = n.acked]]
                /\ events' = events \o << Log("WRQ"),
                                          TransferStarted(i, "Upload", s.filename, 0, FALSE) >>
        /\ UNCHANGED << kernel, codec, os_max, stored, fs, listening, next_id, out, ntx >>

\* lines 470-479: the OACK, or ACK 0
WrqInitialAck(i, keys) ==
    LET s == sess[i]
    IN  /\ s.kind = "wrq" /\ s.pc = "ack0"
        /\ keys \in KeyOrders(s.oack_options)
        /\ Send(i, IF ~is_empty(s.oack_options) THEN oack_to_bytes(s.oack_options, keys)
                   ELSE ack_to_bytes(0))
        /\ sess' = [sess EXCEPT ![i].pc = "create"]
        /\ UNCHANGED << kernel, codec, os_max, stored, fs, listening, next_id, events >>

\* lines 482-492: create_dir_all(parent), File::create, the loop's variables
WrqCreate(i) ==
    LET s == sess[i]
        dirs == create_dir_all(fs, parent_of(s.path))
        made == file_create(dirs.fs, s.path, MaxLinks)
    IN  /\ s.kind = "wrq" /\ s.pc = "create"
        /\ IF ~dirs.ok \/ ~made.ok
           THEN Fail(i, s, Err("io")) /\ fs' = dirs.fs /\ UNCHANGED stored
           ELSE /\ fs' = (made.path :> FileNode(<<>>)) @@ dirs.fs
                /\ stored' = [q \in DOMAIN stored \ {made.path} |-> stored[q]]
                /\ sess' = [sess EXCEPT ![i] = [s EXCEPT !.pc = "recv", !.file = made.path,
                               !.transferred = 0, !.pos = 0, !.expected_block = 1,
                               !.retries = 0]]
                /\ UNCHANGED events
        /\ UNCHANGED << kernel, codec, os_max, listening, next_id, out, ntx >>

\* lines 496-529: one result of the receive in the upload loop, up to the
\* next receive or to the write
WrqOnRecv(i, in, s, pkt) ==
        /\ s.kind = "wrq" /\ s.pc = "recv"
        /\ CASE in.res = "timeout" ->
                   IF RetriesExhausted(s.retries + 1)
                   THEN /\ Fail(i, s, Err("timeout waiting for DATA block"))
                        /\ UNCHANGED << out, ntx >>
                   ELSE /\ sess' = [sess EXCEPT ![i] = [s EXCEPT !.retries = s.retries + 1]]
                        /\ Send(i, ack_to_bytes(wrapping_sub1(s.expected_block)))
                        /\ UNCHANGED events
             [] in.res = "err" -> Fail(i, s, Err("io")) /\ UNCHANGED << out, ntx >>
             [] OTHER ->
                   IF ~pkt.ok
                   THEN Fail(i, s, Err("malformed packet")) /\ UNCHANGED << out, ntx >>
                   ELSE IF pkt.op = OPCODE_DATA /\ pkt.block_num = s.expected_block
                   THEN /\ sess' = [sess EXCEPT ![i] = [s EXCEPT !.pc = "write",
                                          !.payload = pkt.data, !.rcvd = s.rcvd \o pkt.data]]
                        /\ UNCHANGED << events, out, ntx >>
                   ELSE IF pkt.op = OPCODE_DATA
                           /\ pkt.block_num = wrapping_sub1(s.expected_block)
                   THEN /\ Send(i, ack_to_bytes(pkt.block_num))
                        /\ sess' = [sess EXCEPT ![i] = s]
                        /\ UNCHANGED events
                   ELSE IF pkt.op = OPCODE_ERROR
                   THEN /\ Fail(i, s, ClientError(pkt))
                        /\ UNCHANGED << out, ntx >>
                   ELSE /\ sess' = [sess EXCEPT ![i] = s]
                        /\ UNCHANGED << events, out, ntx >>
        /\ UNCHANGED << kernel, codec, os_max, stored, fs, listening, next_id >>

\* an upload loop that answers every packet it does not wait for as it
\* answers a duplicate of the previous block
WrqWait_AckAll(i, in) ==
    LET pkt == from_bytes(in.dg)
        e == sess[i].expected_block
        other == in.res = "data" /\ pkt.ok /\ pkt.op # OPCODE_ERROR
                 /\ ~(pkt.op = OPCODE_DATA /\ pkt.block_num = e)
    IN  WrqOnRecv(i, in, Noted(sess[i], in),
                  IF other THEN [Pkt(OPCODE_DATA) EXCEPT !.block_num = wrapping_sub1(e)]
                  ELSE pkt)

\* an upload loop that answers a timeout before the first block with the
\* first datagram of the session, the OACK when there was one
WrqWait_FirstAgain(i, in) ==
    LET s == Noted(sess[i], in)
    IN  IF in.res = "timeout" /\ s.expected_block = 1 /\ ~RetriesExhausted(s.retries + 1)
        THEN /\ s.kind = "wrq" /\ s.pc = "recv"
             /\ sess' = [sess EXCEPT ![i] = [s EXCEPT !.retries = s.retries + 1]]
             /\ Send(i, out[i][1])
             /\ UNCHANGED << kernel, codec, os_max, stored, fs, listening, next_id, events >>
        ELSE WrqOnRecv(i, in, s, from_bytes(in.dg))

\* the upload loop: the session notes what its receive returned and acts on it
WrqWait(i, in) == WrqOnRecv(i, in, Noted(sess[i], in), from_bytes(in.dg))

\* a write at the start of the file, whatever the handle's position
write_at_Start(data, pos, bytes) ==
    bytes \o SubSeq(data, Len(bytes) + 1, Len(data))

\* write_all at the handle's position: bytes past the end of the file leave a
\* hole of zero bytes
write_at(data, pos, bytes) ==
    LET padded == IF pos > Len(data) THEN data \o [k \in 1..(pos - Len(data)) |-> 0]
                  ELSE data
    IN  SubSeq(padded, 1, pos) \o bytes \o SubSeq(padded, pos + Len(bytes) + 1, Len(padded))

\* the write on a file node: a write inside the hole makes the hole end there
file_write(node, pos, bytes) ==
    IF pos >= node.hole
    THEN [node EXCEPT !.data = write_at(@, pos - node.hole, bytes)]
    ELSE [node EXCEPT !.hole = pos,
                      !.data = write_at(Zeros(node.hole - pos) \o @, 0, bytes)]

\* an is_last that a full block sets as well
is_last_Full(data_payload, blksize) == Len(data_payload) <= blksize

\* line 532: let is_last = data_payload.len() < blksize
is_last(data_payload, blksize) == Len(data_payload) < blksize

\* lines 532-536: write_all, transferred
WrqWrite(i) ==
    LET s == sess[i]
    IN  /\ s.kind = "wrq" /\ s.pc = "write"
        /\ fs' = [fs EXCEPT ![s.file] = file_write(@, s.pos, s.payload)]
        /\ sess' = [sess EXCEPT ![i] = [s EXCEPT !.pc = "ack",
                        !.pos = s.pos + Len(s.payload),
                        !.transferred = s.transferred + Len(s.payload)]]
        /\ UNCHANGED << kernel, codec, os_max, stored, listening, next_id, events, out, ntx >>

\* an upload that stays in its loop after the last block, to answer duplicates
WrqAck_Dally(i) ==
    LET s == sess[i]
    IN  /\ s.kind = "wrq" /\ s.pc = "ack"
        /\ Send(i, ack_to_bytes(s.expected_block))
        /\ events' = Append(events, TransferProgress(i, s.transferred, s.transferred))
        /\ sess' = [sess EXCEPT ![i] =
                       IF is_last(s.payload, s.blksize) THEN [s EXCEPT !.pc = "recv", !.retries = 0]
                       ELSE [s EXCEPT !.pc = "recv", !.retries = 0,
                                      !.expected_block = wrapping_add1(s.expected_block)]]
        /\ UNCHANGED << kernel, codec, os_max, stored, fs, listening, next_id >>

\* lines 539-553: ACK the block, TransferProgress, last block or next block
WrqAck(i) ==
    LET s == sess[i]
    IN  /\ s.kind = "wrq" /\ s.pc = "ack"
        /\ Send(i, ack_to_bytes(s.expected_block))
        /\ events' = Append(events, TransferProgress(i, s.transferred, s.transferred))
        /\ sess' = [sess EXCEPT ![i] =
                       IF is_last(s.payload, s.blksize) THEN [s EXCEPT !.pc = "flush"]
                       ELSE [s EXCEPT !.pc = "recv", !.retries = 0,
                                      !.expected_block = wrapping_add1(s.expected_block)]]
        /\ UNCHANGED << kernel, codec, os_max, stored, fs, listening, next_id >>

\* an end of the upload that sends the log line alone
WrqFlush_Silent(i) ==
    LET s == sess[i]
    IN  /\ s.kind = "wrq" /\ s.pc = "flush"
        /\ sess' = [sess EXCEPT ![i].pc = "done"]
        /\ events' = Append(events, Log("WRQ complete"))
        /\ stored' = (s.file :> s.rcvd) @@ stored
        /\ UNCHANGED << kernel, codec, os_max, fs, listening, next_id, out, ntx >>

\* lines 556-562: flush, TransferComplete
WrqFlush(i) ==
    LET s == sess[i]
    IN  /\ s.kind = "wrq" /\ s.pc = "flush"
        /\ sess' = [sess EXCEPT ![i].pc = "done"]
        /\ events' = events \o << TransferComplete(i), Log("WRQ complete") >>
        /\ stored' = (s.file :> s.rcvd) @@ stored
        /\ UNCHANGED << kernel, codec, os_max, fs, listening, next_id, out, ntx >>

(***************************************************************************)
(* Exits that are not tied to one handler.                                 *)
(***************************************************************************)
\* A socket or file operation other than the receive returns an error and
\* the handler's `?` returns it: bind (331, 466), send (343, 386, 474-542),
\* open and read (367, 375), create_dir_all and create (483, 487),
\* write_all (535), flush (556).
IoError(i) ==
    /\ sess[i].pc \in {"bind", "oack_send", "open", "read", "ack0", "create",
                       "write", "ack", "flush"}
    /\ Fail(i, sess[i], Err("io"))
    /\ UNCHANGED << kernel, codec, os_max, stored, fs, listening, next_id, out, ntx >>

\* The task ends: its frame, its socket and its file handle are dropped.
TaskExit(i) ==
    /\ Terminated(sess[i])
    /\ sess' = [sess EXCEPT ![i] = Exited(@)]
    /\ out' = [out EXCEPT ![i] = <<>>]
    /\ ntx' = [ntx EXCEPT ![i] = 0]
    /\ UNCHANGED << kernel, codec, os_max, stored, fs, listening, next_id, events >>

\* main.rs run_tui: the observer drains the channel
Observe ==
    /\ events # <<>>
    /\ events' = <<>>
    /\ UNCHANGED << kernel, codec, os_max, stored, fs, listening, next_id, sess, out, ntx >>

(***************************************************************************)
(* The peers of a session.                                                 *)
(***************************************************************************)
\* the payloads an uploading peer sends as block e: a full block while the
\* bound allows, a short block of three bytes, an empty block
FullBlock(s) == [k \in 1..s.blksize |-> (16 * s.expected_block + k) % 256]

ShortBlock(s) == [k \in 1..3 |-> (16 * s.expected_block + 8 + k) % 256]

Payloads(s) ==
    { <<>>, ShortBlock(s) }
    \cup (IF s.transferred + s.blksize <= MaxFullBytes THEN { FullBlock(s) } ELSE {})

\* a peer ERROR packet (code 0, "X") and a truncated datagram
PeerError == error_to_bytes(0, <<88>>)

Truncated == <<0, 4, 0>>

\* packets no session waits for: an OACK and a request for "f"
PeerOack == oack_to_bytes(EmptyMap, <<>>)

PeerRequest(opcode) == encode_request(opcode, <<102>>, TXT_octet, EmptyMap, <<>>)

\* what can arrive on the socket of session s
PeerDatagrams(s) ==
    CASE s.pc = "oack_wait" ->
              { ack_to_bytes(0), ack_to_bytes(1), data_to_bytes(1, <<>>), PeerError,
                Truncated }
      [] s.pc = "wait" ->
              { ack_to_bytes(s.block_num), ack_to_bytes(wrapping_sub1(s.block_num)),
                data_to_bytes(s.block_num, <<>>), PeerOack, PeerRequest(OPCODE_RRQ),
                PeerError, Truncated }
      [] s.pc = "recv" ->
              { data_to_bytes(s.expected_block, p) : p \in Payloads(s) }
              \cup { data_to_bytes(wrapping_sub1(s.expected_block), <<>>),
                     data_to_bytes(wrapping_add1(s.expected_block), <<>>),
                     ack_to_bytes(0), PeerOack, PeerRequest(OPCODE_WRQ), PeerError,
                     Truncated }
      [] OTHER -> {}

RecvOutcomes(s) == { RecvTimeout, RecvError } \cup { Recv(dg) : dg \in PeerDatagrams(s) }

\* The receive result `in` makes session i send again without counting a
\* timeout.
IsStray(s, in) ==
    LET pkt == from_bytes(in.dg)
    IN  /\ in.res = "data" /\ pkt.ok /\ pkt.op # OPCODE_ERROR
        /\ CASE s.pc = "oack_wait" -> ~(pkt.op = OPCODE_ACK /\ pkt.block_num = 0)
             [] s.pc = "wait" -> ~(pkt.op = OPCODE_ACK /\ pkt.block_num = s.block_num)
             [] s.pc = "recv" -> pkt.op = OPCODE_DATA
                                 /\ pkt.block_num = wrapping_sub1(s.expected_block)
             [] OTHER -> FALSE

\* the peer's strays are bounded
StrayAllowed(i, in) ==
    IsStray(sess[i], in) => ntx[i] < sess[i].retries + 1 + MaxStray

(***************************************************************************)
(* Specifications.                                                         *)
(***************************************************************************)
Init ==
    /\ kernel \in KernelProfiles
    /\ os_max = detect_max_blksize(kernel)
    /\ fs = (<<>> :> DirNode) @@ (ServedDir :> DirNode)
    /\ listening = TRUE
    /\ next_id = 1
    /\ sess = <<>>
    /\ events = << Log("Listening"), Log("Max negotiable blksize") >>
    /\ out = <<>>
    /\ ntx = <<>>
    /\ stored = EmptyMap
    /\ codec = CodecIdle

\* every task has exited and the observer has drained the channel
Quiescent == events = <<>> /\ \A i \in Ids : sess[i].pc = "exited"

Waiting == { i \in Ids : sess[i].pc \in {"oack_wait", "wait", "recv"} }

\* The steps of the sessions, each for any session and any receive result.
StepRrqSetup == \E i \in Ids : RrqSetup(i)

StepWrqSetup == \E i \in Ids : WrqSetup(i)

StepBind == \E i \in Ids : Bind(i)

StepRrqSendOack == \E i \in Ids : \E keys \in KeyOrders(sess[i].oack_options) :
                       RrqSendOack(i, keys)

StepRrqOackWait == \E i \in Waiting : \E in \in RecvOutcomes(sess[i]) :
                       StrayAllowed(i, in) /\ RrqOackWait(i, in)

StepRrqOpen == \E i \in Ids : RrqOpen(i)

StepRrqRead == \E i \in Ids : RrqRead(i)

StepRrqWait == \E i \in Waiting : \E in \in RecvOutcomes(sess[i]) :
                   StrayAllowed(i, in) /\ RrqWait(i, in)

StepWrqInitialAck == \E i \in Ids : \E keys \in KeyOrders(sess[i].oack_options) :
                         WrqInitialAck(i, keys)

StepWrqCreate == \E i \in Ids : WrqCreate(i)

StepWrqWait == \E i \in Waiting : \E in \in RecvOutcomes(sess[i]) :
                   StrayAllowed(i, in) /\ WrqWait(i, in)

StepWrqWrite == \E i \in Ids : WrqWrite(i)

StepWrqAck == \E i \in Ids : WrqAck(i)

StepWrqFlush == \E i \in Ids : WrqFlush(i)

StepIoError == \E i \in Ids : IoError(i)

StepTaskExit == \E i \in Ids : TaskExit(i)

\* the observer runs when no task is left
ObserveIdle == (\A i \in Ids : sess[i].pc = "exited") /\ Observe

\* Sessions one after the other: a peer sends to the listener only when every
\* earlier task has exited and the observer has drained the channel.
ListenIdle == Quiescent /\ \E dg \in ListenerDatagrams, peer \in Peers : Listen(dg, peer)

\* the shutdown signal fires between sessions
ShutdownIdle == Quiescent /\ Shutdown

Next ==
    \/ ListenIdle
    \/ ShutdownIdle
    \/ ObserveIdle
    \/ StepRrqSetup
    \/ StepWrqSetup
    \/ StepBind
    \/ StepRrqSendOack
    \/ StepRrqOackWait
    \/ StepRrqOpen
    \/ StepRrqRead
    \/ StepRrqWait
    \/ StepWrqInitialAck
    \/ StepWrqCreate
    \/ StepWrqWait
    \/ StepWrqWrite
    \/ StepWrqAck
    \/ StepWrqFlush
    \/ StepIoError
    \/ StepTaskExit

Spec == Init /\ [][Next]_vars

\* a step of the task of session i: the runtime runs a task whose await has
\* completed, and the await of a receive completes with a datagram, an error
\* or, after TIMEOUT, a timeout
TaskStep(i) ==
    /\ i \in Ids
    /\ \/ RrqSetup(i) \/ WrqSetup(i) \/ Bind(i) \/ RrqOpen(i) \/ RrqRead(i)
       \/ WrqCreate(i) \/ WrqWrite(i) \/ WrqAck(i) \/ WrqFlush(i) \/ TaskExit(i)
       \/ \E keys \in KeyOrders(sess[i].oack_options) :
              RrqSendOack(i, keys) \/ WrqInitialAck(i, keys)
       \/ \E in \in RecvOutcomes(sess[i]) :
              StrayAllowed(i, in) /\ (RrqOackWait(i, in) \/ RrqWait(i, in) \/ WrqWait(i, in))

\* Spec with tasks that are not left waiting for ever
SpecLive == Spec /\ \A i \in 1..MaxSessions : WF_vars(TaskStep(i))

\* Sessions side by side: requests arrive while sessions run.  The peers
\* of these sessions send what the session waits for before the receive
\* times out, no socket or file operation fails, and the observer empties
\* the event channel before the next step of the server.
PatientPeer(i, in) ==
    /\ in.res = "data"
    /\ LET pkt == from_bytes(in.dg)
          IN  /\ pkt.ok
              /\ pkt.op \in {OPCODE_ACK, OPCODE_DATA}
              /\ ~IsStray(sess[i], in)
              /\ pkt.op = OPCODE_DATA => pkt.block_num = sess[i].expected_block

Drained == events = <<>>

ObserveAny == Observe

ListenAny == Drained /\ \E dg \in ListenerDatagrams, peer \in Peers : Listen(dg, peer)

ConcRrqOackWait == Drained /\ \E i \in Waiting : \E in \in RecvOutcomes(sess[i]) :
                       PatientPeer(i, in) /\ RrqOackWait(i, in)

ConcRrqWait == Drained /\ \E i \in Waiting : \E in \in RecvOutcomes(sess[i]) :
                   PatientPeer(i, in) /\ RrqWait(i, in)

ConcWrqWait == Drained /\ \E i \in Waiting : \E in \in RecvOutcomes(sess[i]) :
                   PatientPeer(i, in) /\ WrqWait(i, in)

ConcRrqSetup == Drained /\ StepRrqSetup

ConcWrqSetup == Drained /\ StepWrqSetup

ConcBind == Drained /\ StepBind

ConcRrqSendOack == Drained /\ StepRrqSendOack

ConcRrqOpen == Drained /\ StepRrqOpen

ConcRrqRead == Drained /\ StepRrqRead

ConcWrqInitialAck == Drained /\ StepWrqInitialAck

ConcWrqCreate == Drained /\ StepWrqCreate

ConcWrqWrite == Drained /\ StepWrqWrite

ConcWrqAck == Drained /\ StepWrqAck

ConcWrqFlush == Drained /\ StepWrqFlush

ConcTaskExit == Drained /\ StepTaskExit

NextConc ==
    \/ ListenAny
    \/ ObserveAny
    \/ ConcRrqSetup
    \/ ConcWrqSetup
    \/ ConcBind
    \/ ConcRrqSendOack
    \/ ConcRrqOackWait
    \/ ConcRrqOpen
    \/ ConcRrqRead
    \/ ConcRrqWait
    \/ ConcWrqInitialAck
    \/ ConcWrqCreate
    \/ ConcWrqWait
    \/ ConcWrqWrite
    \/ ConcWrqAck
    \/ ConcWrqFlush
    \/ ConcTaskExit

SpecConc == Init /\ [][NextConc]_vars

(***************************************************************************)
(* The sanitizer over file names and file systems: one request arrives at  *)
(* a server whose served tree holds subdirectories and symbolic links, and *)
(* its session runs to its end with a peer that answers each packet at     *)
(* once, the observer taking the events as they come.                      *)
(***************************************************************************)
\* "f", "l", "l/f", "l/n", "d/n", "n/m", "d\f", "./f", "d//n", "n/m/k",
\* "l/n/m", "f/n", "...", "..f",
\* "../f", "d/../f", "f/..", "d\..\f", "/f", "\f", ".", "./."
SanFileNames ==
    { <<102>>, <<108>>, <<108, 47, 102>>, <<108, 47, 110>>, <<100, 47, 110>>,
      <<110, 47, 109>>, <<100, 92, 102>>, <<46, 47, 102>>, <<100, 47, 47, 110>>,
      <<110, 47, 109, 47, 107>>, <<108, 47, 110, 47, 109>>, <<102, 47, 110>>,
      <<46, 46, 46>>, <<46, 46, 102>>,
      <<46, 46, 47, 102>>, <<100, 47, 46, 46, 47, 102>>, <<102, 47, 46, 46>>,
      <<100, 92, 46, 46, 92, 102>>, <<47, 102>>, <<92, 102>>, <<46>>, <<46, 47, 46>> }

\* "/o", a directory beside the served one
OutsideDir == << <<111>> >>

\* "/", "/o" and "/o/f"
OutsideTree ==
    (<<>> :> DirNode) @@ (OutsideDir :> DirNode)
    @@ ((OutsideDir \o << <<102>> >>) :> FileNode(<<7, 8>>))

\* "/srv" with the file "f" and the directory "d"
ServedTree ==
    (ServedDir :> DirNode) @@ ((ServedDir \o << <<102>> >>) :> FileNode(<<1, 2, 3>>))
    @@ ((ServedDir \o << <<100>> >>) :> DirNode)

\* what "/srv/l" points to: "/o", "/o/f", "/o/n" (missing), "/srv/d"
LinkTargets ==
    { OutsideDir, OutsideDir \o << <<102>> >>, OutsideDir \o << <<110>> >>,
      ServedDir \o << <<100>> >> }

\* the file systems a request can find: the served tree, the served tree
\* with the symbolic link "l", the served directory replaced by a symbolic
\* link to "/o", the served directory removed
SanFileSystems ==
    { ServedTree @@ OutsideTree }
    \cup { ((ServedDir \o << <<108>> >>) :> LinkNode(t)) @@ ServedTree @@ OutsideTree :
              t \in LinkTargets }
    \cup { (ServedDir :> LinkNode(OutsideDir)) @@ OutsideTree, OutsideTree }

SanDatagrams ==
    { encode_request(op, f, TXT_octet, EmptyMap, <<>>) :
         op \in {OPCODE_RRQ, OPCODE_WRQ}, f \in SanFileNames }

InitSan ==
    /\ kernel \in KernelProfiles
    /\ os_max = detect_max_blksize(kernel)
    /\ fs \in SanFileSystems
    /\ listening = TRUE
    /\ next_id = 1
    /\ sess = <<>>
    /\ events = << Log("Listening"), Log("Max negotiable blksize") >>
    /\ out = <<>>
    /\ ntx = <<>>
    /\ stored = EmptyMap
    /\ codec = CodecIdle

\* the one request of the behaviour arrives
SanListen == sess = <<>> /\ \E dg \in SanDatagrams, peer \in Peers : Listen(dg, peer)

NextSan ==
    \/ SanListen
    \/ ObserveAny
    \/ ConcRrqSetup
    \/ ConcWrqSetup
    \/ ConcBind
    \/ ConcRrqOpen
    \/ ConcRrqRead
    \/ ConcRrqWait
    \/ ConcWrqInitialAck
    \/ ConcWrqCreate
    \/ ConcWrqWait
    \/ ConcWrqWrite
    \/ ConcWrqAck
    \/ ConcWrqFlush

SpecSan == InitSan /\ [][NextSan]_vars

(***************************************************************************)
(* Transfers longer than 65535 blocks: one session with blksize 8 that has *)
(* moved WrapStart - 1 blocks of zero bytes, taken at the point where it   *)
(* turns to block WrapStart.  Of what it sent and received before, `out`,  *)
(* `acks` and `last_in` keep the last datagram only, and `rcvd` starts     *)
(* empty.                                                                  *)
(***************************************************************************)
\* bytes moved before the behaviour starts
WrapPos == (WrapStart - 1) * MIN_BLKSIZE

\* the download's file: full blocks up to ordinal WrapStart + 2, then three
\* bytes
WrapLen == (WrapStart + 2) * MIN_BLKSIZE + 3

WrapFile == ServedDir \o << <<102>> >>

WrapBytes(n) == [k \in 1..n |-> k % 256]

WrapOptions == (TXT_blksize :> <<56>>)

WrapSession(kind) ==
    [NewSession(kind, 1, [filename |-> <<102>>, options |-> WrapOptions]) EXCEPT
        !.id = 1, !.path = WrapFile, !.file = WrapFile, !.blksize = MIN_BLKSIZE,
        !.oack_options = WrapOptions,
        !.pos = WrapPos, !.transferred = WrapPos,
        !.payload = Zeros(MIN_BLKSIZE)]

\* a download whose block WrapStart - 1 has just been acknowledged
WrapDownload ==
    LET s == WrapSession("rrq")
    IN  [s EXCEPT !.pc = "read", !.block_num = WrapStart % U16_MOD,
                  !.total_bytes = WrapLen,
                  !.pkt_bytes = data_to_bytes((WrapStart - 1) % U16_MOD, s.payload),
                  !.last_in = Recv(ack_to_bytes((WrapStart - 1) % U16_MOD)),
                  !.acks = {(WrapStart - 1) % U16_MOD}]

\* an upload that has just acknowledged block WrapStart - 1
WrapUpload ==
    LET s == WrapSession("wrq")
    IN  [s EXCEPT !.pc = "recv", !.expected_block = WrapStart % U16_MOD,
                  !.last_in = Recv(data_to_bytes((WrapStart - 1) % U16_MOD, s.payload))]

InitWrap ==
    /\ kernel \in KernelProfiles
    /\ os_max = detect_max_blksize(kernel)
    /\ listening = TRUE
    /\ next_id = 2
    /\ events = <<>>
    /\ stored = EmptyMap
    /\ codec = CodecIdle
    /\ ntx = <<1>>
    /\ \/ /\ sess = << WrapDownload >>
          /\ fs = (<<>> :> DirNode) @@ (ServedDir :> DirNode)
                     @@ (WrapFile :> SparseNode(WrapPos, WrapBytes(WrapLen - WrapPos)))
          /\ out = << << WrapDownload.pkt_bytes >> >>
       \/ /\ sess = << WrapUpload >>
          /\ fs = (<<>> :> DirNode) @@ (ServedDir :> DirNode)
                     @@ (WrapFile :> SparseNode(WrapPos, <<>>))
          /\ out = << << ack_to_bytes((WrapStart - 1) % U16_MOD) >> >>

\* the uploading peer sends full blocks up to ordinal WrapStart + 2
WrapPayloads(s) ==
    { ShortBlock(s) }
    \cup (IF s.transferred < (WrapStart + 2) * MIN_BLKSIZE THEN { FullBlock(s) } ELSE {})

\* what the peer of the session sends: the packet the session waits for, the
\* one before it, or an ERROR packet; or the receive times out
WrapOutcomes(s) ==
    { RecvTimeout }
    \cup { Recv(dg) : dg \in
             IF s.pc = "wait"
             THEN { ack_to_bytes(s.block_num), ack_to_bytes(wrapping_sub1(s.block_num)),
                    PeerError }
             ELSE { data_to_bytes(s.expected_block, d) : d \in WrapPayloads(s) }
                  \cup { data_to_bytes(wrapping_sub1(s.expected_block), <<>>), PeerError } }

WrapRrqWait == \E i \in Waiting : \E in \in WrapOutcomes(sess[i]) :
                  StrayAllowed(i, in) /\ RrqWait(i, in)

WrapWrqWait == \E i \in Waiting : \E in \in WrapOutcomes(sess[i]) :
                  StrayAllowed(i, in) /\ WrqWait(i, in)

NextWrap ==
    \/ StepRrqRead
    \/ WrapRrqWait
    \/ WrapWrqWait
    \/ StepWrqWrite
    \/ StepWrqAck
    \/ StepWrqFlush

SpecWrap == InitWrap /\ [][NextWrap]_vars

(***************************************************************************)
(* Option negotiation over the option maps of a request and the results of *)
(* the datagram-size probe: one request for the 20-byte file "f" arrives   *)
(* and its session runs with a peer that answers each packet at once and   *)
(* an observer that empties the event channel before each step.            *)
(***************************************************************************)
\* The kernels the probe can meet: no socket, no bind, every size taken,
\* every size answered by an error that is not about the size (111), sizes
\* above a threshold refused with EMSGSIZE (90) or, above 9216, with ENOBUFS
\* (55); threshold 0 refuses every size.
NegKernels ==
    { [socket_ok |-> FALSE, bind_ok |-> TRUE, send |-> [c \in CandidateSet |-> 0]],
      [socket_ok |-> TRUE, bind_ok |-> FALSE, send |-> [c \in CandidateSet |-> 0]],
      [socket_ok |-> TRUE, bind_ok |-> TRUE, send |-> [c \in CandidateSet |-> 111]],
      [socket_ok |-> TRUE, bind_ok |-> TRUE,
       send |-> [c \in CandidateSet |-> IF c > 9216 THEN 55 ELSE 0]] }
    \cup { [socket_ok |-> TRUE, bind_ok |-> TRUE,
            send |-> [c \in CandidateSet |-> IF c > t THEN 90 ELSE 0]] :
              t \in CandidateSet \cup {0} }

\* blksize values: "7", "8", "9", "512", "1024", "10000", "65464", "65465",
\* "+10", "008", "abc", "-8", ""
NegBlksizeValues ==
    { <<55>>, <<56>>, <<57>>, <<53, 49, 50>>, <<49, 48, 50, 52>>, <<49, 48, 48, 48, 48>>,
      <<54, 53, 52, 54, 52>>, <<54, 53, 52, 54, 53>>, <<43, 49, 48>>, <<48, 48, 56>>,
      <<97, 98, 99>>, <<45, 56>>, <<>> }

\* tsize values: "0", "123", "x"
NegTsizeValues == { <<48>>, <<49, 50, 51>>, <<120>> }

\* the option lists of the requests: blksize or not, tsize or not, and one
\* with the key written "BLKSIZE" (value "16")
NegOptionSets ==
    { b @@ t : b \in { EmptyMap } \cup { (TXT_blksize :> v) : v \in NegBlksizeValues },
               t \in { EmptyMap } \cup { (TXT_tsize :> v) : v \in NegTsizeValues } }
    \cup { (<<66, 76, 75, 83, 73, 90, 69>> :> <<49, 54>>) }

NegDatagrams ==
    UNION { { encode_request(op, <<102>>, TXT_octet, o, k) :
                 op \in {OPCODE_RRQ, OPCODE_WRQ}, k \in KeyOrders(o) } :
            o \in NegOptionSets }

NegFile == ServedDir \o << <<102>> >>

NegFileLen == 20

InitNeg ==
    /\ kernel \in NegKernels
    /\ os_max = detect_max_blksize(kernel)
    /\ fs = (<<>> :> DirNode) @@ (ServedDir :> DirNode)
               @@ (NegFile :> FileNode([k \in 1..NegFileLen |-> k]))
    /\ listening = TRUE
    /\ next_id = 1
    /\ sess = <<>>
    /\ events = << Log("Listening"), Log("Max negotiable blksize") >>
    /\ out = <<>>
    /\ ntx = <<>>
    /\ stored = EmptyMap
    /\ codec = CodecIdle

\* the one request of the behaviour arrives
NegListen == sess = <<>> /\ \E dg \in NegDatagrams, peer \in Peers : Listen(dg, peer)

NextNeg ==
    \/ NegListen
    \/ ObserveAny
    \/ ConcRrqSetup
    \/ ConcWrqSetup
    \/ ConcBind
    \/ ConcRrqSendOack
    \/ ConcRrqOackWait
    \/ ConcRrqOpen
    \/ ConcRrqRead
    \/ ConcRrqWait
    \/ ConcWrqInitialAck
    \/ ConcWrqCreate
    \/ ConcWrqWrite
    \/ ConcWrqWait
    \/ ConcWrqAck
    \/ ConcWrqFlush

SpecNeg == InitNeg /\ [][NextNeg]_vars

(***************************************************************************)
(* The probe: the server starts on any of a family of hosts, and requests  *)
(* that ask for the largest block size are negotiated.                     *)
(***************************************************************************)
\* the OS errors that mean "too large" and some that do not (0: the send
\* succeeded; 61 and 111: connection refused)
SizeErrors == {40, 55, 90}

OtherOutcomes == {0, 61, 111}

\* the hosts: the sizes before the t-th are refused with the errors a and b
\* in turn, the t-th ends in r, the smaller ones in z; or no socket, or no bind
ProbeKernels ==
    { [socket_ok |-> TRUE, bind_ok |-> TRUE,
       send |-> [c \in CandidateSet |->
                   LET k == CHOOSE n \in 1..Len(candidates) : candidates[n] = c
                   IN  IF k < t THEN (IF k % 2 = 1 THEN a ELSE b)
                       ELSE IF k = t THEN r ELSE z]] :
         t \in 1..(Len(candidates) + 1), a \in SizeErrors, b \in SizeErrors,
         r \in OtherOutcomes, z \in {0, 90} }
    \cup { [socket_ok |-> so, bind_ok |-> bo, send |-> [c \in CandidateSet |-> 0]] :
              so \in BOOLEAN, bo \in BOOLEAN }

\* requests for "f" that ask for the largest block size, or for none
ProbeDatagrams ==
    UNION { { encode_request(op, <<102>>, TXT_octet, o, k) :
                 op \in {OPCODE_RRQ, OPCODE_WRQ}, k \in KeyOrders(o) } :
            o \in { EmptyMap, (TXT_blksize :> <<54, 53, 52, 54, 52>>) } }

InitProbe ==
    /\ kernel \in ProbeKernels
    /\ os_max = detect_max_blksize(kernel)
    /\ fs = (<<>> :> DirNode) @@ (ServedDir :> DirNode)
               @@ (NegFile :> FileNode([k \in 1..NegFileLen |-> k]))
    /\ listening = TRUE
    /\ next_id = 1
    /\ sess = <<>>
    /\ events = << Log("Listening"), Log("Max negotiable blksize") >>
    /\ out = <<>>
    /\ ntx = <<>>
    /\ stored = EmptyMap
    /\ codec = CodecIdle

ProbeListen == Drained /\ \E dg \in ProbeDatagrams, peer \in Peers : Listen(dg, peer)

\* the sessions are followed up to their negotiation
NextProbe ==
    \/ ProbeListen
    \/ ObserveAny
    \/ ConcRrqSetup
    \/ ConcWrqSetup

SpecProbe == InitProbe /\ [][NextProbe]_vars

(***************************************************************************)
(* The end of the listener: requests for the file "f", an undecodable      *)
(* datagram and a stray ACK arrive while sessions run; at any time the     *)
(* shutdown signal can fire or the listener's receive can fail.  The       *)
(* sessions have patient peers and the observer empties the event channel  *)
(* before each step.                                                       *)
(***************************************************************************)
StopDatagrams ==
    { encode_request(op, <<102>>, TXT_octet, EmptyMap, <<>>) : op \in {OPCODE_RRQ, OPCODE_WRQ} }
    \cup { <<0>>, ack_to_bytes(0) }

StopListen == Drained /\ \E dg \in StopDatagrams, peer \in Peers : Listen(dg, peer)

StopShutdown == Drained /\ Shutdown

StopRecvError == Drained /\ ListenRecvError

NextStop ==
    \/ StopListen
    \/ StopShutdown
    \/ StopRecvError
    \/ ObserveAny
    \/ ConcRrqSetup
    \/ ConcWrqSetup
    \/ ConcBind
    \/ ConcRrqOpen
    \/ ConcRrqRead
    \/ ConcRrqWait
    \/ ConcWrqInitialAck
    \/ ConcWrqCreate
    \/ ConcWrqWait
    \/ ConcWrqWrite
    \/ ConcWrqAck
    \/ ConcWrqFlush
    \/ ConcTaskExit

SpecStop == Init /\ [][NextStop]_vars

(***************************************************************************)
(* The codec by itself: a caller hands a packet value to to_bytes and the  *)
(* bytes to from_bytes, or hands a buffer to from_bytes.                   *)
(***************************************************************************)
\* "netascii", "OCTET"
TXT_netascii == <<110, 101, 116, 97, 115, 99, 105, 105>>

TXT_OCTET == <<79, 67, 84, 69, 84>>

\* file names: "f", "é", "a/b", "", "a" NUL "b"
CodecFileNames == { <<102>>, <<195, 169>>, <<97, 47, 98>>, <<>>, <<97, 0, 98>> }

CodecModes == { TXT_octet, TXT_netascii, TXT_OCTET }

\* option maps: none, blksize, blksize and tsize, a value in capitals, the
\* key "BLKSIZE", an empty key
CodecOptions ==
    { EmptyMap, (TXT_blksize :> <<56>>),
      (TXT_blksize :> <<49, 48, 50, 52>>) @@ (TXT_tsize :> TXT_zero),
      (TXT_tsize :> <<65, 98>>),
      (<<66, 76, 75, 83, 73, 90, 69>> :> <<56>>),
      (<<>> :> <<49>>) }

CodecBlocks == { 0, 1, 255, 256, U16_MOD - 1 }

\* the packet values a caller can build
PacketValues ==
    { [Pkt(op) EXCEPT !.filename = f, !.mode = m, !.options = o] :
         op \in {OPCODE_RRQ, OPCODE_WRQ}, f \in CodecFileNames, m \in CodecModes,
         o \in CodecOptions }
    \cup { [Pkt(OPCODE_DATA) EXCEPT !.block_num = b, !.data = d] :
               b \in CodecBlocks, d \in { <<>>, <<0>>, <<0, 0>>, <<1, 0, 255>> } }
    \cup { [Pkt(OPCODE_ACK) EXCEPT !.block_num = b] : b \in CodecBlocks }
    \cup { [Pkt(OPCODE_ERROR) EXCEPT !.code = c, !.msg = m] :
               c \in {0, 1, U16_MOD - 1},
               m \in { <<>>, <<88>>, <<195, 169>>, <<97, 0, 98>> } }
    \cup { [Pkt(OPCODE_OACK) EXCEPT !.options = o] : o \in CodecOptions }

\* the bytes after the first two of a buffer: 0, 'f' and 0xC8 (no UTF-8)
RECURSIVE Tails(_)
Tails(n) ==
    IF n = 0 THEN { <<>> }
    ELSE Tails(n - 1) \cup { Append(t, b) : t \in Tails(n - 1), b \in {0, 102, 200} }

\* the buffers a caller can hand to from_bytes: nothing, one byte, or an
\* opcode 0..7 or 260 followed by up to MaxTail bytes
Buffers ==
    { <<>>, <<0>>, <<3>> }
    \cup { h \o t : h \in { <<0, op>> : op \in 0..7 } \cup { <<1, 4>> }, t \in Tails(MaxTail) }

InitCodec ==
    /\ kernel \in KernelProfiles
    /\ os_max = detect_max_blksize(kernel)
    /\ fs = (<<>> :> DirNode) @@ (ServedDir :> DirNode)
    /\ listening = TRUE
    /\ next_id = 1
    /\ sess = <<>>
    /\ events = << Log("Listening"), Log("Max negotiable blksize") >>
    /\ out = <<>>
    /\ ntx = <<>>
    /\ stored = EmptyMap
    /\ codec \in { [stage |-> "value", pkt |-> p, buf |-> <<>>, got |-> PktErr] :
                       p \in PacketValues }
               \cup { [stage |-> "bytes", pkt |-> PktErr, buf |-> b, got |-> PktErr] :
                          b \in Buffers }

\* the caller serializes its packet value
Encode ==
    /\ codec.stage = "value"
    /\ \E keys \in KeyOrders(codec.pkt.options) :
          codec' = [codec EXCEPT !.stage = "bytes", !.buf = to_bytes(codec.pkt, keys)]
    /\ UNCHANGED << kernel, os_max, fs, listening, next_id, sess, events, out, ntx, stored >>

\* the caller parses the bytes
Decode ==
    /\ codec.stage = "bytes"
    /\ codec' = [codec EXCEPT !.stage = "decoded", !.got = from_bytes(codec.buf)]
    /\ UNCHANGED << kernel, os_max, fs, listening, next_id, sess, events, out, ntx, stored >>

NextCodec ==
    \/ Encode
    \/ Decode

SpecCodec == InitCodec /\ [][NextCodec]_vars

(***************************************************************************)
(* Properties of the sessions.                                             *)
(***************************************************************************)
\* the events the step sends on the channel
Emitted ==
    IF Len(events') >= Len(events) /\ SubSeq(events', 1, Len(events)) = events
    THEN SubSeq(events', Len(events) + 1, Len(events'))
    ELSE <<>>

\* the events on the channel that carry id i
IdEvents(i) == SelectSeq(events, LAMBDA e : e.id = i)

\* the DATA packets session i has sent, each once, in the order of sending
DataSent(i) ==
    LET decode == [k \in 1..Len(out[i]) |-> from_bytes(out[i][k])]
    IN  SelectSeq(decode, LAMBDA pkt : pkt.op = OPCODE_DATA)

\* the last datagram session i has sent, decoded
LastSent(i) == from_bytes(out[i][Len(out[i])])

\* C1: in a download session, DATA n+1 is sent only when an ACK carrying
\* block number n has been received: of the blocks sent, every one but the
\* last sent has been acknowledged, whatever the peer sent or lost meanwhile.
C1_Lockstep ==
    \A i \in Ids : sess[i].kind = "rrq" =>
        LET d == DataSent(i)
        IN  \A k \in 1..Len(d) :
              /\ k > 1 => wrapping_sub1(d[k].block_num) \in sess[i].acks
              /\ k < Len(d) => d[k].block_num \in sess[i].acks

\* a download waits for the ACK of its third block after a timeout and a
\* stray packet
C1_Witness ==
    \E i \in Ids : /\ sess[i].kind = "rrq" /\ sess[i].pc = "wait"
                   /\ Len(DataSent(i)) = 3
                   /\ sess[i].retries = 1 /\ ntx[i] = 3

\* the step makes download i send TransferComplete
RrqCompletes(i) == \E k \in 1..Len(Emitted) : Emitted[k] = TransferComplete(i)

\* the step is a receive of download i that returns the ACK of the block it
\* waits for, and that block is shorter than blksize
RrqShortAcked(i) ==
    /\ sess[i].pc = "wait"
    /\ sess'[i] # sess[i]
    /\ sess'[i].last_in.res = "data"
    /\ LET ack == from_bytes(sess'[i].last_in.dg)
           last == LastSent(i)
       IN  /\ ack.ok /\ ack.op = OPCODE_ACK
           /\ last.op = OPCODE_DATA /\ ack.block_num = last.block_num
           /\ Len(last.data) < sess[i].blksize

\* C2: a download sends TransferComplete in exactly the step in which it
\* receives ACK n for a DATA n shorter than blksize, and sends nothing once it
\* has completed.
C2_CompleteOnShortAck ==
    [][\A i \in Ids : sess[i].kind = "rrq" =>
          /\ RrqCompletes(i) <=> RrqShortAcked(i)
          /\ sess[i].pc = "done" =>
                \/ out'[i] = out[i] /\ ntx'[i] = ntx[i]
                \/ out'[i] = <<>> /\ sess'[i].pc = "exited"]_vars

\* a download has completed on the ACK of a short second block
C2_Witness ==
    \E i \in Ids : /\ sess[i].kind = "rrq" /\ sess[i].pc = "done"
                   /\ Len(DataSent(i)) = 2
                   /\ Len(LastSent(i).data) = 3

\* C3: a completed download of a file of L bytes with block size B has sent
\* floor(L / B) + 1 blocks, numbered 1, 2, ...; each but the last carries B
\* bytes and the last carries L mod B bytes.
C3_BlockCount ==
    \A i \in Ids : sess[i].kind = "rrq" /\ sess[i].pc = "done" =>
        LET L == Len(fs[sess[i].path].data)
            B == sess[i].blksize
            d == DataSent(i)
        IN  /\ Len(d) = (L \div B) + 1
            /\ \A k \in 1..Len(d) :
                  /\ d[k].block_num = k
                  /\ Len(d[k].data) = IF k < Len(d) THEN B ELSE L % B

\* a completed download of a file of two full blocks: the third block is empty
C3_Witness ==
    \E i \in Ids : /\ sess[i].kind = "rrq" /\ sess[i].pc = "done"
                   /\ Len(fs[sess[i].path].data) = 2 * sess[i].blksize
                   /\ Len(DataSent(i)) = 3
                   /\ LastSent(i).data = <<>>

\* a completed download of an empty file: one empty block, block 1
C3_WitnessEmpty ==
    \E i \in Ids : /\ sess[i].kind = "rrq" /\ sess[i].pc = "done"
                   /\ fs[sess[i].path].data = <<>>
                   /\ Len(DataSent(i)) = 1

\* C4: a completed download has transferred as many bytes as the metadata of
\* the file gave when the session started (the total_bytes of TransferStarted),
\* also while an upload to the same file runs.
C4_TransferredIsTotal ==
    \A i \in Ids : sess[i].kind = "rrq" /\ sess[i].pc = "done" =>
        sess[i].transferred = sess[i].total_bytes

\* the block numbers of the ACK packets session i has sent
AcksSent(i) ==
    { from_bytes(out[i][k]).block_num :
        k \in { j \in 1..Len(out[i]) : from_bytes(out[i][j]).op = OPCODE_ACK } }

\* the blocks upload s has written to its file
BlocksWritten(s) ==
    IF s.pc \in {"recv", "write"} THEN s.expected_block - 1 ELSE s.expected_block

\* C5: the file of an upload holds the payloads of the accepted blocks, each
\* once and in block order (the block accepted last is appended before the
\* session goes on); ACK e is sent only when block e has been written; at
\* TransferComplete the file is as long as the accepted payloads together.
C5_WriteOnceThenAck ==
    \A i \in Ids :
        sess[i].kind = "wrq" /\ sess[i].pc \in {"recv", "write", "ack", "flush", "done"} =>
            LET s == sess[i]
                file == fs[s.path].data
            IN  /\ IF s.pc = "write" THEN file \o s.payload = s.rcvd ELSE file = s.rcvd
                /\ \A a \in AcksSent(i) : a <= BlocksWritten(s)
                /\ s.pc = "done" => /\ Len(file) = Len(s.rcvd)
                                    /\ s.transferred = Len(file)
                                    /\ BlocksWritten(s) \in AcksSent(i)

\* an upload of two full blocks and a short one has completed
C5_Witness ==
    \E i \in Ids : /\ sess[i].kind = "wrq" /\ sess[i].pc = "done"
                   /\ sess[i].expected_block = 3
                   /\ Len(fs[sess[i].path].data) = 2 * sess[i].blksize + 3

\* the step makes upload i send TransferComplete
WrqCompletes(i) == \E k \in 1..Len(Emitted) : Emitted[k] = TransferComplete(i)

\* the last receive of session s returned DATA with a valid header
GotData(s) == s.last_in.res = "data" /\ from_bytes(s.last_in.dg).ok
              /\ from_bytes(s.last_in.dg).op = OPCODE_DATA

\* what upload i has done when it is about to complete, or has completed:
\* the DATA it accepted was the expected block and shorter than blksize, its
\* payload is in the file and ACK e was the last packet sent
C6_ShortAccepted ==
    \A i \in Ids : sess[i].kind = "wrq" /\ sess[i].pc \in {"flush", "done"} =>
        LET s == sess[i]
            pkt == from_bytes(s.last_in.dg)
        IN  /\ GotData(s) /\ pkt.block_num = s.expected_block
            /\ Len(pkt.data) < s.blksize
            /\ fs[s.path].data = s.rcvd
            /\ LastSent(i).op = OPCODE_ACK /\ LastSent(i).block_num = s.expected_block

\* the steps of upload i: it completes in the step after the flush and in no
\* other; a receive makes it write exactly when it returns DATA of the
\* expected block; after the ACK, a full block leads to the next receive and
\* a short block to the flush
C6_Steps ==
    \A i \in Ids : sess[i].kind = "wrq" =>
        LET s == sess[i]
            t == sess'[i]
            pkt == from_bytes(t.last_in.dg)
        IN  /\ WrqCompletes(i) <=> (s.pc = "flush" /\ t.pc = "done")
            /\ s.pc = "recv" /\ t # s =>
                  (t.pc = "write" <=> GotData(t) /\ pkt.block_num = s.expected_block)
            /\ s.pc = "recv" /\ t # s /\ t.pc # "write" => t.pc \in {"recv", "failed"}
            /\ s.pc = "ack" /\ t.pc \notin {"ack", "failed"} =>
                  IF Len(s.payload) < s.blksize THEN t.pc = "flush"
                  ELSE t.pc = "recv" /\ t.expected_block = wrapping_add1(s.expected_block)

\* C6: an upload completes exactly when it has accepted, written,
\* acknowledged and flushed a DATA of the expected block that is shorter than
\* blksize; a full block and a short block of another number do not end it.
C6_CompleteOnShortData == []C6_ShortAccepted /\ [][C6_Steps]_vars

\* an upload that waits for block 2 has received an empty DATA 3 and goes on
\* waiting
C6_Witness ==
    \E i \in Ids : /\ sess[i].kind = "wrq" /\ sess[i].pc = "recv"
                   /\ sess[i].expected_block = 2
                   /\ GotData(sess[i])
                   /\ from_bytes(sess[i].last_in.dg).block_num = 3
                   /\ from_bytes(sess[i].last_in.dg).data = <<>>

\* the bytes download i has delivered: the payloads of its DATA packets
RECURSIVE Payload(_, _)
Payload(d, k) == IF k = 0 THEN <<>> ELSE Payload(d, k - 1) \o d[k].data

Delivered(i) == Payload(DataSent(i), Len(DataSent(i)))

\* C7: sessions running one after the other, a completed download of a file
\* on which an upload has completed, and which no later upload has created
\* anew, delivers the uploaded bytes.
C7_RoundTrip ==
    \A d \in Ids :
        sess[d].kind = "rrq" /\ sess[d].pc = "done" /\ sess[d].path \in DOMAIN stored =>
            Delivered(d) = stored[sess[d].path]

\* eleven bytes uploaded in blocks of 8 have been downloaded in one block of
\* 512
C7_Witness ==
    \E d \in Ids : /\ sess[d].kind = "rrq" /\ sess[d].pc = "done"
                   /\ sess[d].path \in DOMAIN stored
                   /\ Len(stored[sess[d].path]) = 11
                   /\ sess[d].blksize = BLOCK_SIZE
                   /\ Len(Delivered(d)) = 11

Terminators == {"TransferComplete", "TransferFailed"}

\* the places in the events of id i that hold a terminating event
TermAt(i) == { k \in 1..Len(IdEvents(i)) : IdEvents(i)[k].type \in Terminators }

\* a session that has returned has sent one terminating event, its last
\* event, TransferComplete after Ok and TransferFailed after Err; a session
\* that runs has sent none
C8_OneTerminatorSent ==
    \A i \in Ids :
        LET es == IdEvents(i)
        IN  /\ Terminated(sess[i]) =>
                  /\ TermAt(i) = {Len(es)} /\ es # <<>>
                  /\ es[Len(es)].type = IF sess[i].pc = "done" THEN "TransferComplete"
                                        ELSE "TransferFailed"
            /\ sess[i].pc \notin {"done", "failed", "exited"} => TermAt(i) = {}

\* a session that has returned sends no event
C8_SilentAfter ==
    \A i \in Ids : sess[i].pc \in {"done", "failed", "exited"} =>
        \A k \in 1..Len(Emitted) : Emitted[k].id # i

\* C8: on every way out, a session sends exactly one terminating event for
\* its id, TransferComplete or TransferFailed, and no event for that id after
\* it.
C8_OneTerminator == []C8_OneTerminatorSent /\ [][C8_SilentAfter]_vars

\* a download has failed on an ERROR packet of its peer, after a block was
\* acknowledged
C8_Witness ==
    \E i \in Ids : /\ sess[i].kind = "rrq" /\ sess[i].pc = "failed"
                   /\ sess[i].transferred > 0
                   /\ sess[i].last_in.res = "data"
                   /\ from_bytes(sess[i].last_in.dg).op = OPCODE_ERROR
                   /\ Len(IdEvents(i)) = 3

\* the events of one id in order: TransferStarted at most once and first,
\* TransferProgress and TransferComplete only after TransferStarted, one
\* terminating event and nothing after it
StreamOrdered(es) ==
    \A k \in 1..Len(es) :
        /\ es[k].type = "TransferStarted" => k = 1
        /\ es[k].type \in {"TransferProgress", "TransferComplete"} =>
              k > 1 /\ es[1].type = "TransferStarted"
        /\ es[k].type \in Terminators => k = Len(es)

\* C9 as amended: the events of an id are TransferStarted, TransferProgress
\* any number of times, one terminating event; or, for a session that fails
\* before it sends TransferStarted, TransferFailed alone.
C9_EventOrder ==
    \A i \in Ids :
        LET es == IdEvents(i)
        IN  /\ StreamOrdered(es)
            /\ Terminated(sess[i]) =>
                  /\ es # <<>> /\ es[Len(es)].type \in Terminators
                  /\ es[1].type # "TransferStarted" => es = << es[1] >>
                                                       /\ es[1].type = "TransferFailed"

\* C9 as stated: the first event of every id is TransferStarted.
C9_StartedFirst ==
    \A i \in Ids : IdEvents(i) # <<>> => IdEvents(i)[1].type = "TransferStarted"

\* a session whose file name leaves the served directory has failed: its
\* only event is TransferFailed
C9_Witness ==
    \E i \in Ids : /\ sess[i].pc = "failed"
                   /\ sess[i].filename = <<46, 46, 47, 102>>
                   /\ Len(IdEvents(i)) = 1
                   /\ IdEvents(i)[1].type = "TransferFailed"

\* the step is a receive of session i that timed out
TimedOut(i) ==
    /\ sess[i].pc \in {"oack_wait", "wait", "recv"}
    /\ << sess'[i], out'[i], ntx'[i] >> # << sess[i], out[i], ntx[i] >>
    /\ sess'[i].last_in.res = "timeout"

\* the step sends one datagram on the socket of session i
SendsOne(i) ==
    \/ out'[i] = out[i] /\ ntx'[i] = ntx[i] + 1
    \/ Len(out'[i]) = Len(out[i]) + 1 /\ ntx'[i] = 1

\* C10 as amended: in each wait loop the first MAX_RETRIES timeouts are each
\* answered by one retransmission and another receive; the timeout after
\* them makes the session send TransferFailed and return, with nothing sent
\* on the socket.
C10_GiveUpOnEleventh ==
    [][\A i \in Ids : TimedOut(i) =>
          IF sess[i].retries < MAX_RETRIES
          THEN /\ sess'[i].pc = sess[i].pc
               /\ sess'[i].retries = sess[i].retries + 1
               /\ SendsOne(i)
               /\ Emitted = <<>>
          ELSE /\ sess[i].retries = MAX_RETRIES
               /\ sess'[i].pc = "failed"
               /\ out'[i] = out[i] /\ ntx'[i] = ntx[i]
               /\ \E k \in 1..Len(Emitted) :
                     Emitted[k].type = "TransferFailed" /\ Emitted[k].id = i]_vars

\* C10 as stated: the tenth timeout of a wait loop makes the session fail.
C10_GiveUpOnTenth ==
    [][\A i \in Ids : TimedOut(i) /\ sess[i].retries = MAX_RETRIES - 1 =>
          sess'[i].pc = "failed"]_vars

\* an upload has failed on the timeout that followed MAX_RETRIES others
C10_Witness ==
    \E i \in Ids : /\ sess[i].kind = "wrq" /\ sess[i].pc = "failed"
                   /\ sess[i].retries = MAX_RETRIES
                   /\ sess[i].last_in.res = "timeout"
                   /\ ntx[i] >= MAX_RETRIES + 1

\* the step is a receive of session i that returned a datagram which
\* from_bytes does not decode
GotMalformed(i) ==
    /\ sess[i].pc \in {"oack_wait", "wait", "recv"}
    /\ sess'[i] # sess[i]
    /\ sess'[i].last_in.res = "data"
    /\ ~from_bytes(sess'[i].last_in.dg).ok

\* C11: a datagram that fails wire decoding on a session socket is recovered
\* locally: the session stays in its wait loop with the same block number,
\* does not terminate and sends no TransferFailed because of it.
C11_MalformedRecovered ==
    [][\A i \in Ids : GotMalformed(i) =>
          /\ sess'[i].pc = sess[i].pc
          /\ sess'[i].block_num = sess[i].block_num
          /\ sess'[i].expected_block = sess[i].expected_block
          /\ \A k \in 1..Len(Emitted) : Emitted[k].type # "TransferFailed"]_vars

\* the step is a receive of session i that returned an ERROR packet
GotError(i) ==
    /\ sess[i].pc \in {"oack_wait", "wait", "recv"}
    /\ sess'[i] # sess[i]
    /\ sess'[i].last_in.res = "data"
    /\ from_bytes(sess'[i].last_in.dg).ok
    /\ from_bytes(sess'[i].last_in.dg).op = OPCODE_ERROR

\* session i has stopped on an ERROR packet of its peer
StoppedOnError(i) ==
    /\ sess[i].pc = "failed"
    /\ sess[i].last_in.res = "data"
    /\ from_bytes(sess[i].last_in.dg).ok
    /\ from_bytes(sess[i].last_in.dg).op = OPCODE_ERROR

\* C12: a session that receives ERROR{code, msg} in one of its wait loops
\* sends TransferFailed carrying the code and the message and stops; in that
\* step and afterwards it sends no datagram and writes nothing to a file.
C12_PeerErrorStops ==
    [][\A i \in Ids :
          /\ GotError(i) =>
                /\ sess'[i].pc = "failed"
                /\ \E k \in 1..Len(Emitted) :
                      /\ Emitted[k].type = "TransferFailed" /\ Emitted[k].id = i
                      /\ Emitted[k].error.code = from_bytes(sess'[i].last_in.dg).code
                      /\ Emitted[k].error.msg = from_bytes(sess'[i].last_in.dg).msg
                /\ out'[i] = out[i] /\ ntx'[i] = ntx[i] /\ fs' = fs
          /\ StoppedOnError(i) =>
                /\ fs' = fs
                /\ \/ out'[i] = out[i] /\ ntx'[i] = ntx[i]
                   \/ sess'[i].pc = "exited" /\ out'[i] = <<>>
                /\ \A k \in 1..Len(Emitted) : Emitted[k].id # i]_vars

\* an upload that had written a block has stopped on the peer's ERROR
C12_Witness ==
    \E i \in Ids : /\ StoppedOnError(i) /\ sess[i].kind = "wrq"
                   /\ sess[i].rcvd # <<>>
                   /\ fs[sess[i].path].data = sess[i].rcvd
                   /\ from_bytes(sess[i].last_in.dg).msg = <<88>>

\* the opcodes of the datagrams session i has sent; 0 stands for a datagram
\* that does not decode
SentOps(i) ==
    { IF from_bytes(out[i][k]).ok THEN from_bytes(out[i][k]).op ELSE 0 :
         k \in 1..Len(out[i]) }

\* the step is one of the listener: it spawns a task or logs a datagram it
\* does not serve
ListenerStep ==
    \/ next_id' # next_id
    \/ \E k \in 1..Len(Emitted) :
          Emitted[k].type = "Log"
          /\ Emitted[k].text \in {"bad packet", "unexpected packet on listener"}

\* every datagram of a download is an OACK or a DATA, every datagram of an
\* upload an OACK or an ACK
C13_SessionOpcodes ==
    \A i \in Ids :
       /\ sess[i].kind = "rrq" => SentOps(i) \subseteq {OPCODE_OACK, OPCODE_DATA}
       /\ sess[i].kind = "wrq" => SentOps(i) \subseteq {OPCODE_OACK, OPCODE_ACK}
       /\ sess[i].kind = "" => out[i] = <<>>

\* C13: the server never sends an ERROR packet: a download sends only OACK
\* and DATA, an upload only OACK and ACK, and a step of the listener sends
\* nothing at all.
C13_NoErrorSent ==
    /\ []C13_SessionOpcodes
    /\ [][ListenerStep =>
             /\ \A i \in Ids : out'[i] = out[i] /\ ntx'[i] = ntx[i]
             /\ \A i \in (1..Len(out')) \ Ids : out'[i] = <<>> /\ ntx'[i] = 0]_vars

\* a download that sent its OACK and a DATA has failed, and an ERROR packet
\* is not among what it sent
C13_Witness ==
    \E i \in Ids : /\ sess[i].kind = "rrq" /\ sess[i].pc = "failed"
                   /\ SentOps(i) = {OPCODE_OACK, OPCODE_DATA}
                   /\ sess[i].last_in.res = "data"
                   /\ ~from_bytes(sess[i].last_in.dg).ok

\* the sanitizer rejects the file name of the request of session i
Rejected(i) ==
    sess[i].kind \in {"rrq", "wrq"} /\ ~sanitize_path(fs, ServedDir, sess[i].filename).ok

\* a rejected session is before its sanitizer call or has failed; it has no
\* path and has sent nothing
C14_RejectedIdle ==
    \A i \in Ids : Rejected(i) =>
       /\ sess[i].pc \in {"spawned", "failed"}
       /\ sess[i].path = <<>>
       /\ out[i] = <<>> /\ ntx[i] = 0

\* the step of a rejected session that runs the sanitizer sends
\* TransferFailed and nothing else for its id; no step of a rejected session
\* touches a file or a socket
C14_RejectedStep ==
    \A i \in Ids : Rejected(i) /\ sess'[i] # sess[i] =>
       /\ fs' = fs
       /\ out'[i] = <<>>
       /\ sess[i].pc = "spawned" =>
             /\ sess'[i].pc = "failed"
             /\ \E k \in 1..Len(Emitted) :
                   Emitted[k].type = "TransferFailed" /\ Emitted[k].id = i
             /\ \A k \in 1..Len(Emitted) :
                   Emitted[k].id = i => Emitted[k].type = "TransferFailed"
       /\ sess[i].pc = "failed" => sess'[i].pc = "exited" /\ Emitted = <<>>

\* C14: a request whose file name the sanitizer rejects makes its session
\* send TransferFailed and stop before anything else: no transfer socket is
\* bound, no datagram is sent, no file is opened, created or read.
C14_RejectedStopsFirst == []C14_RejectedIdle /\ [][C14_RejectedStep]_vars

\* an upload of "../f" has failed with nothing sent and no file created
C14_Witness ==
    \E i \in Ids : /\ Rejected(i) /\ sess[i].pc = "failed"
                   /\ sess[i].filename = <<46, 46, 47, 102>>
                   /\ sess[i].kind = "wrq"
                   /\ out[i] = <<>>
                   /\ ~exists(fs, ServedDir \o << <<102>> >>)

\* path a is a prefix of path b, component by component
IsPrefix(a, b) == Len(a) <= Len(b) /\ \A k \in 1..Len(a) : b[k] = a[k]

\* Path p lies under the canonical served root as far as it exists: the
\* canonical form of p if p exists, else of its deepest existing ancestor.
UnderRoot(p) ==
    LET root == canonicalize(fs, ServedDir)
    IN  /\ root.ok
        /\ IF exists(fs, p)
           THEN IsPrefix(root.path, canonicalize(fs, p).path)
           ELSE \E k \in 0..(Len(p) - 1) :
                   /\ exists(fs, SubSeq(p, 1, k))
                   /\ \A j \in (k + 1)..(Len(p) - 1) : ~exists(fs, SubSeq(p, 1, j))
                   /\ IsPrefix(root.path, canonicalize(fs, SubSeq(p, 1, k)).path)

\* C15: every path sanitize_path returns lies under the canonicalized served
\* root: the canonical form of the path if it exists, or else of its deepest
\* existing ancestor, has the canonical root as prefix; so does the path
\* every session works on after its setup.
C15_UnderRoot ==
    \A i \in Ids :
       /\ sess[i].pc = "spawned" =>
             LET r == sanitize_path(fs, ServedDir, sess[i].filename)
             IN  r.ok => UnderRoot(r.path)
       /\ sess[i].pc = "bind" => UnderRoot(sess[i].path)

\* an upload of "l/n" has passed the sanitizer: "l" is a symbolic link to
\* "d", the file does not exist and its deepest existing ancestor is the link
C15_Witness ==
    \E i \in Ids : /\ sess[i].pc = "bind" /\ sess[i].kind = "wrq"
                   /\ sess[i].filename = <<108, 47, 110>>
                   /\ sess[i].path = ServedDir \o << <<108>>, <<110>> >>
                   /\ ~exists(fs, sess[i].path)
                   /\ (ServedDir \o << <<108>> >>) \in DOMAIN fs
                   /\ fs[ServedDir \o << <<108>> >>].kind = "link"

\* byte k of file name f is a separator: '/' or a backslash
IsSep(f, k) == f[k] \in {47, 92}

\* bytes a..b of f are one whole component
WholeComponent(f, a, b) ==
    /\ (a = 1 \/ IsSep(f, a - 1))
    /\ (b = Len(f) \/ IsSep(f, b + 1))

\* The file name is refused for its text: it begins with a separator, or
\* one of its components is "..", or nothing but separators and "."
\* components is in it.
TextRefused(f) ==
    \/ f # <<>> /\ IsSep(f, 1)
    \/ \E a \in 1..(Len(f) - 1) :
          f[a] = 46 /\ f[a + 1] = 46 /\ WholeComponent(f, a, a + 1)
    \/ \A k \in 1..Len(f) : IsSep(f, k) \/ (f[k] = 46 /\ WholeComponent(f, k, k))

\* the errors sanitize_path raises before it looks at the file system
TextErrors ==
    { "absolute paths are not allowed", "path traversal is not allowed", "invalid filename" }

\* C16: sanitize_path returns an error for every file name that, with its
\* backslashes read as '/', begins with '/', has a ".." component at any
\* position, or has no component besides empty and "." ones; the error is
\* the same whatever the file system holds, and the session fails.
C16_TextRejected ==
    \A i \in Ids : sess[i].kind # "" /\ TextRefused(sess[i].filename) =>
       /\ ~sanitize_path(fs, ServedDir, sess[i].filename).ok
       /\ sanitize_path(fs, ServedDir, sess[i].filename).err \in TextErrors
       /\ \A g \in SanFileSystems :
             sanitize_path(g, ServedDir, sess[i].filename)
                = sanitize_path(fs, ServedDir, sess[i].filename)
       /\ sess[i].pc \in {"spawned", "failed"}

\* a download of "d\..\f" has failed on the traversal test, in a file system
\* where "d" and "f" exist
C16_Witness ==
    \E i \in Ids : /\ sess[i].kind = "rrq" /\ sess[i].pc = "failed"
                   /\ sess[i].filename = <<100, 92, 46, 46, 92, 102>>
                   /\ exists(fs, ServedDir \o << <<100>> >>)
                   /\ exists(fs, ServedDir \o << <<102>> >>)
                   /\ \E k \in 1..Len(events) :
                         /\ events[k].type = "TransferFailed"
                         /\ events[k].error.text = "path traversal is not allowed"

\* the datagram the step leaves as the last one sent by session i, decoded
LastSentAfter(i) == from_bytes(out'[i][Len(out'[i])])

\* The block number on the wire is the ordinal of the block modulo 2^16: a
\* download that waits for an ACK has sent the DATA of the block that starts
\* at its file offset; an upload that waits for DATA expects the block after
\* the bytes it has written and has acknowledged the one before.
C17_NumberIsOrdinal ==
    \A i \in Ids :
       /\ sess[i].kind = "rrq" /\ sess[i].pc = "wait" =>
             /\ LastSent(i).op = OPCODE_DATA
             /\ LastSent(i).block_num =
                   ((sess[i].pos - Len(sess[i].payload)) \div sess[i].blksize + 1) % U16_MOD
             /\ sess[i].block_num = LastSent(i).block_num
       /\ sess[i].kind = "wrq" /\ sess[i].pc = "recv" =>
             /\ sess[i].expected_block = (sess[i].pos \div sess[i].blksize + 1) % U16_MOD
             /\ LastSent(i).op = OPCODE_ACK
             /\ LastSent(i).block_num = (sess[i].pos \div sess[i].blksize) % U16_MOD

\* Block 65535 is followed by block 0 and the session goes on; an upload
\* that expects block 0 takes DATA 65535 for the duplicate and acknowledges
\* it again.
C17_WrapStep ==
    \A i \in Ids :
       /\ ( /\ sess[i].kind = "rrq" /\ sess[i].pc = "wait"
            /\ sess[i].block_num = U16_MOD - 1
            /\ Len(sess[i].payload) = sess[i].blksize
            /\ sess'[i] # sess[i]
            /\ sess'[i].last_in = Recv(ack_to_bytes(U16_MOD - 1)) )
          => /\ sess'[i].pc = "read" /\ sess'[i].block_num = 0
             /\ \A k \in 1..Len(Emitted) : Emitted[k].type = "TransferProgress"
       /\ ( /\ sess[i].kind = "wrq" /\ sess[i].pc = "ack"
            /\ sess[i].expected_block = U16_MOD - 1
            /\ Len(sess[i].payload) = sess[i].blksize
            /\ sess'[i] # sess[i] )
          => /\ sess'[i].pc = "recv" /\ sess'[i].expected_block = 0
             /\ LastSentAfter(i).op = OPCODE_ACK
             /\ LastSentAfter(i).block_num = U16_MOD - 1
             /\ \A k \in 1..Len(Emitted) : Emitted[k].type = "TransferProgress"
       /\ ( /\ sess[i].kind = "wrq" /\ sess[i].pc = "recv"
            /\ sess[i].expected_block = 0
            /\ << sess'[i], ntx'[i] >> # << sess[i], ntx[i] >>
            /\ sess'[i].last_in = Recv(data_to_bytes(U16_MOD - 1, <<>>)) )
          => /\ sess'[i].pc = "recv" /\ sess'[i].expected_block = 0
             /\ SendsOne(i)
             /\ LastSentAfter(i).op = OPCODE_ACK
             /\ LastSentAfter(i).block_num = U16_MOD - 1
             /\ Emitted = <<>>

\* C17: block numbers are 16-bit and wrap modulo 2^16: a download sends
\* block 0 after block 65535, an upload expects block 0 after block 65535 and
\* then takes block 65535 for the duplicate; the wrap itself neither ends
\* nor fails the session.
C17_WrapContinues == []C17_NumberIsOrdinal /\ [][C17_WrapStep]_vars

\* an upload of more than 65535 blocks has completed, its last block
\* numbered after the wrap
C17_Witness ==
    \E i \in Ids : /\ sess[i].kind = "wrq" /\ sess[i].pc = "done"
                   /\ sess[i].transferred > (U16_MOD - 1) * sess[i].blksize
                   /\ sess[i].expected_block < 3
                   /\ file_len(fs[sess[i].path]) = sess[i].transferred

\* 10 to the power n
RECURSIVE Pow10(_)
Pow10(n) == IF n = 0 THEN 1 ELSE 10 * Pow10(n - 1)

\* text t is a decimal numeral: digits, after an optional '+'
IsNumeral(t) ==
    LET first == IF t # <<>> /\ t[1] = 43 THEN 2 ELSE 1
    IN  first <= Len(t) /\ \A k \in first..Len(t) : t[k] \in 48..57

\* the number a numeral stands for
NumeralValue(t) ==
    LET first == IF t[1] = 43 THEN 2 ELSE 1
        Digit[k \in first..(Len(t) + 1)] ==
            IF k > Len(t) THEN 0 ELSE (t[k] - 48) * Pow10(Len(t) - k) + Digit[k + 1]
    IN  Digit[first]

\* the request asks for a block size the server takes: the value of its
\* blksize option is a numeral in [8, 65464]
AsksBlksize(options) ==
    /\ TXT_blksize \in DOMAIN options
    /\ IsNumeral(options[TXT_blksize])
    /\ NumeralValue(options[TXT_blksize]) \in 8..65464

\* the least of 65464 and the probe's result
Cap == IF os_max < 65464 THEN os_max ELSE 65464

\* C18: for every option map of a request and every result of the probe the
\* negotiated blksize lies in [8, min(65464, kernel_max)], and is 512 when
\* the blksize option is absent, unparseable or outside [8, 65464]; this is
\* the block size of the session.
C18_BlksizeRange ==
    \A i \in Ids : sess[i].kind # "" =>
       LET n == negotiate_options(sess[i].options, os_max)
       IN  /\ n.blksize \in 8..Cap
           /\ ~AsksBlksize(sess[i].options) => n.blksize = 512
           /\ sess[i].pc \notin {"spawned", "failed"} => sess[i].blksize = n.blksize

\* a download that asked for blksize 10000 runs with the 9212 bytes the
\* kernel allows
C18_Witness ==
    \E i \in Ids : /\ sess[i].kind = "rrq" /\ sess[i].pc = "oack_wait"
                   /\ sess[i].options = (TXT_blksize :> <<49, 48, 48, 48, 48>>)
                   /\ os_max = 9212
                   /\ sess[i].blksize = 9212

\* the first datagram session i has sent, decoded
FirstSent(i) == from_bytes(out[i][1])

\* the OACK of session i names option key
Echoes(i, key) == FirstSent(i).op = OPCODE_OACK /\ key \in DOMAIN FirstSent(i).options

Least(a, b) == IF a < b THEN a ELSE b

\* the length of block k of a file of len bytes cut into blocks of size b
CutLen(len, b, k) ==
    IF len - (k - 1) * b <= 0 THEN 0 ELSE Least(b, len - (k - 1) * b)

\* C19: the OACK has a blksize entry exactly when the request's blksize is a
\* numeral in [8, 65464]; its value is then min(requested, kernel_max), and
\* that is the block size of the session: a download cuts its DATA payloads
\* at it, an upload takes a shorter payload for the last block and a payload
\* of that length for one more block to come.
C19_EchoedBlksize ==
    \A i \in Ids : out[i] # <<>> =>
       /\ Echoes(i, TXT_blksize) <=> AsksBlksize(sess[i].options)
       /\ Echoes(i, TXT_blksize) =>
             /\ IsNumeral(FirstSent(i).options[TXT_blksize])
             /\ NumeralValue(FirstSent(i).options[TXT_blksize])
                   = Least(NumeralValue(sess[i].options[TXT_blksize]), os_max)
             /\ NumeralValue(FirstSent(i).options[TXT_blksize]) = sess[i].blksize
       /\ sess[i].kind = "rrq" =>
             \A k \in 1..Len(DataSent(i)) :
                /\ DataSent(i)[k].block_num = k
                /\ Len(DataSent(i)[k].data) = CutLen(NegFileLen, sess[i].blksize, k)
       /\ sess[i].kind = "wrq" =>
             /\ sess[i].pc \in {"flush", "done"} => Len(sess[i].payload) < sess[i].blksize
             /\ sess[i].pc = "recv" /\ sess[i].expected_block > 1 =>
                   Len(sess[i].payload) = sess[i].blksize

\* an upload that asked for blksize "008" got "8" in its OACK and has
\* completed after one block of 8 bytes and one of 3
C19_Witness ==
    \E i \in Ids : /\ sess[i].kind = "wrq" /\ sess[i].pc = "done"
                   /\ sess[i].options = (TXT_blksize :> <<48, 48, 56>>)
                   /\ Echoes(i, TXT_blksize)
                   /\ FirstSent(i).options[TXT_blksize] = <<56>>
                   /\ sess[i].transferred = 11

OacksSent(i) == { k \in 1..Len(out[i]) : from_bytes(out[i][k]).op = OPCODE_OACK }

\* C21: a session sends an OACK exactly when its set of acknowledged options
\* is not empty.  With no acknowledged option it sends no OACK, and its first
\* datagram is DATA 1 in a download and ACK 0 in an upload; with one or more,
\* its first datagram is the OACK that carries them, also in an upload, whose
\* first datagram then is no ACK.
C21_OackIffAcked ==
    \A i \in Ids : out[i] # <<>> =>
        LET s == sess[i]
            first == FirstSent(i)
        IN  IF DOMAIN s.oack_options = {}
            THEN /\ OacksSent(i) = {}
                 /\ s.kind = "rrq" => first.op = OPCODE_DATA /\ first.block_num = 1
                 /\ s.kind = "wrq" => first.op = OPCODE_ACK /\ first.block_num = 0
            ELSE /\ 1 \in OacksSent(i)
                 /\ first.options = s.oack_options
                 /\ first.op # OPCODE_ACK

\* an upload that asked for tsize alone has answered with the OACK and has
\* acknowledged its first block
C21_Witness ==
    \E i \in Ids : /\ sess[i].kind = "wrq"
                   /\ DOMAIN sess[i].oack_options = {TXT_tsize}
                   /\ Len(out[i]) = 2
                   /\ FirstSent(i).op = OPCODE_OACK
                   /\ LastSent(i).op = OPCODE_ACK /\ LastSent(i).block_num = 1

\* session i is a download that has an OACK to send
OackDownload(i) == sess[i].kind = "rrq" /\ ~is_empty(sess[i].oack_options)

\* a download with an OACK has sent no DATA and has not come to open its file
\* unless it has received ACK 0
C22_NoDataBeforeAck0 ==
    \A i \in Ids : OackDownload(i) /\ 0 \notin sess[i].acks =>
        /\ DataSent(i) = <<>>
        /\ sess[i].pc \notin {"open", "read", "wait", "done"}

\* the step is a receive of download i in its OACK loop
OackRecv(i) ==
    /\ sess[i].kind = "rrq" /\ sess[i].pc = "oack_wait"
    /\ sess'[i] # sess[i] \/ ntx'[i] # ntx[i]

\* the step leaves download i in its OACK loop and sends the OACK once more
OackResent(i) ==
    /\ sess'[i].pc = "oack_wait"
    /\ out'[i] = out[i] /\ ntx'[i] = ntx[i] + 1
    /\ LastSentAfter(i).op = OPCODE_OACK
    /\ LastSentAfter(i).options = sess[i].oack_options

\* the receive of the step returned a packet that is neither ACK 0 nor ERROR
OackOther(i) ==
    LET in == sess'[i].last_in
        pkt == from_bytes(in.dg)
    IN  /\ in.res = "data" /\ pkt.ok
        /\ ~(pkt.op = OPCODE_ACK /\ pkt.block_num = 0)
        /\ pkt.op # OPCODE_ERROR

\* every such packet makes the download send the OACK again, its retry
\* counter as it was
C22_OtherResends ==
    \A i \in Ids : OackRecv(i) /\ OackOther(i) =>
        OackResent(i) /\ sess'[i].retries = sess[i].retries

\* every timeout makes the download send the OACK again
C22_TimeoutResends ==
    \A i \in Ids : OackRecv(i) /\ sess'[i].last_in.res = "timeout" => OackResent(i)

\* each of the first MAX_RETRIES timeouts makes the download send the OACK
\* again; the next one ends the session, which sends nothing
C22_TimeoutResendsOrFails ==
    \A i \in Ids : OackRecv(i) /\ sess'[i].last_in.res = "timeout" =>
        IF sess[i].retries < MAX_RETRIES
        THEN OackResent(i) /\ sess'[i].retries = sess[i].retries + 1
        ELSE sess'[i].pc = "failed" /\ out'[i] = out[i] /\ ntx'[i] = ntx[i]

\* the OACK loop is left for the data phase on ACK 0 alone
C22_OnlyAck0Starts ==
    \A i \in Ids : sess[i].kind = "rrq" /\ sess[i].pc = "oack_wait" =>
        \/ sess'[i].pc \in {"oack_wait", "failed"}
        \/ /\ sess'[i].pc = "open"
           /\ sess'[i].last_in = Recv(ack_to_bytes(0))
           /\ out'[i] = out[i] /\ ntx'[i] = ntx[i]

C23_IdsIncrease ==
    /\ sess # <<>> => sess[1].id = 1
    /\ \A i, j \in Ids : i < j => sess[i].id < sess[j].id
    /\ \A i \in Ids : sess[i].id < next_id

\* the id of a session never changes
C23_IdKept == \A i \in Ids : sess'[i].id = sess[i].id

\* the ids as above, each kept by its session for as long as the process runs
C23_UniqueIds == []C23_IdsIncrease /\ [][C23_IdKept]_vars

\* two sessions run side by side, a download that waits for an ACK and an
\* upload that waits for DATA, with ids 1 and 2
C23_Witness ==
    /\ Len(sess) = 2
    /\ sess[1].pc \in {"wait", "oack_wait"} /\ sess[2].pc = "recv"
    /\ sess[1].id = 1 /\ sess[2].id = 2

\* the step ends the listener loop
ListenerEnds == listening /\ ~listening'

\* the step is the one in which the listener sees the shutdown signal
SeesShutdown == ListenerEnds /\ Emitted = << Log("Shutting down") >>

\* C24: the listener loop ends only in the step in which it sees the shutdown
\* signal: a datagram that does not decode, a packet of an unexpected opcode,
\* the failure of a session and an error of the listener's own receive leave
\* it running.
C24_OnlyShutdownEnds == [][ListenerEnds => SeesShutdown]_vars

\* the session tasks that have not returned
InFlight == { i \in Ids : sess[i].pc \notin {"done", "failed", "exited"} }

\* the step in which the listener sees the signal changes nothing but the
\* listener and the event channel
C25_StopStep ==
    SeesShutdown => /\ sess' = sess /\ out' = out /\ ntx' = ntx
                    /\ fs' = fs /\ stored' = stored /\ next_id' = next_id

\* the listener that has ended stays so, spawns no session and hands out no
\* id
C25_AfterStop ==
    ~listening => ~listening' /\ next_id' = next_id /\ Len(sess') = Len(sess)

\* the steps of the session tasks
TaskSteps ==
    \/ ConcRrqSetup \/ ConcWrqSetup \/ ConcBind \/ ConcRrqOpen \/ ConcRrqRead
    \/ ConcRrqWait \/ ConcWrqInitialAck \/ ConcWrqCreate \/ ConcWrqWait
    \/ ConcWrqWrite \/ ConcWrqAck \/ ConcWrqFlush

\* the signal is taken whatever the tasks are doing, and a task in flight
\* can take its next step whether the listener runs or not
C25_NotJoined ==
    /\ listening /\ Drained => ENABLED StopShutdown
    /\ Drained /\ InFlight # {} => ENABLED TaskSteps

\* C25: the step in which the listener sees the shutdown signal ends the
\* loop; from that step on no session is spawned and no id handed out; run
\* returns without waiting for the tasks in flight, which are left as they
\* are and go on.
C25_ShutdownLeavesTasks == []C25_NotJoined /\ [][C25_StopStep /\ C25_AfterStop]_vars

\* the listener has just seen the signal while a download waits for an ACK
\* and an upload waits for DATA
C25_Witness ==
    /\ ~listening
    /\ events = << Log("Shutting down") >>
    /\ Len(sess) = 2
    /\ sess[1].kind = "rrq" /\ sess[1].pc = "wait"
    /\ sess[2].kind = "wrq" /\ sess[2].pc = "recv"

\* root/<cleaned relative path>: the served directory followed by the
\* components of the file name that are neither empty nor "."
Destination(filename) ==
    ServedDir \o SelectSeq(split_on(replace_backslash(filename), 47),
                           LAMBDA c : c # <<>> /\ c # <<46>>)

\* the directories above the destination of upload i, the served one included
ParentDirs(i) ==
    LET dest == Destination(sess[i].filename)
    IN  { SubSeq(dest, 1, k) : k \in 1..(Len(dest) - 1) }

\* along the destination of upload i nothing stands in the way: each parent
\* is a directory or missing, the destination a regular file or missing
PlainWay(i) ==
    LET dest == Destination(sess[i].filename)
    IN  /\ \A d \in ParentDirs(i) : d \in DOMAIN fs => fs[d].kind = "dir"
        /\ dest \in DOMAIN fs => fs[dest].kind = "file"

\* the step is the one in which upload i makes its directories and its file
Creates(i) == sess[i].kind = "wrq" /\ sess[i].pc = "create" /\ sess'[i].pc = "recv"

\* When the step is over, every parent of the destination is a directory and
\* the destination is an empty regular file; the step has made directories
\* and that file and changed nothing else.
C26_ParentsThenFile ==
    \A i \in Ids : Creates(i) =>
        LET dest == Destination(sess[i].filename)
        IN  /\ \A d \in ParentDirs(i) : is_dir(fs', d)
            /\ exists(fs', dest)
            /\ canonicalize(fs', dest).path = sess'[i].file
            /\ fs'[sess'[i].file] = FileNode(<<>>)
            /\ \A q \in DOMAIN fs : q # sess'[i].file => fs'[q] = fs[q]
            /\ \A q \in DOMAIN fs' \ DOMAIN fs : q # sess'[i].file => fs'[q] = DirNode

\* an upload with nothing in its way gets its directories and its file
C26_MissingCreated ==
    \A i \in Ids : sess[i].kind = "wrq" /\ sess[i].pc = "create" /\ sess'[i] # sess[i]
                   /\ PlainWay(i) => Creates(i)

\* no step makes a directory outside the canonical served root
C26_DirsInside ==
    \A q \in DOMAIN fs' \ DOMAIN fs :
        fs'[q].kind = "dir" =>
            /\ canonicalize(fs, ServedDir).ok
            /\ IsPrefix(canonicalize(fs, ServedDir).path, q)

\* the destination of a completed upload holds the uploaded bytes
C26_DestinationHolds ==
    \A i \in Ids : sess[i].kind = "wrq" /\ sess[i].pc = "done" =>
        LET dest == Destination(sess[i].filename)
        IN  /\ exists(fs, dest)
            /\ \A d \in ParentDirs(i) : is_dir(fs, d)
            /\ fs[canonicalize(fs, dest).path] = FileNode(sess[i].rcvd)

\* C26: an upload whose destination has parent directories that do not exist
\* makes them, all of them, before it creates the file, and makes no
\* directory outside the served root; when it has completed, the file at
\* root/<cleaned relative path> holds the uploaded bytes.
C26_ParentsCreated ==
    /\ []C26_DestinationHolds
    /\ [][C26_ParentsThenFile /\ C26_MissingCreated /\ C26_DirsInside]_vars

\* the upload of "n/m/k" has completed with three bytes in a served tree that
\* had no "n": "n" and "n/m" are directories now
C26_Witness ==
    \E i \in Ids : /\ sess[i].kind = "wrq" /\ sess[i].pc = "done"
                   /\ sess[i].filename = <<110, 47, 109, 47, 107>>
                   /\ Len(sess[i].rcvd) = 3
                   /\ (ServedDir \o << <<110>>, <<109>>, <<107>> >>) \in DOMAIN fs
                   /\ fs[ServedDir \o << <<110>> >>] = DirNode
                   /\ fs[ServedDir \o << <<110>>, <<109>> >>] = DirNode
                   /\ fs[ServedDir \o << <<110>>, <<109>>, <<107>> >>].data = sess[i].rcvd

(***************************************************************************)
(* Properties of the codec.                                                *)
(***************************************************************************)
NoNul(t) == \A k \in 1..Len(t) : t[k] # 0

NoCapital(t) == \A k \in 1..Len(t) : t[k] \notin 65..90

\* texts that the wire format can carry: no NUL in any text
Carried(p) ==
    /\ NoNul(p.filename) /\ NoNul(p.mode) /\ NoNul(p.msg)
    /\ \A key \in DOMAIN p.options : NoNul(key) /\ NoNul(p.options[key])

\* a packet value of the protocol: its texts can be carried, a request names
\* a file, and an option has a name
LegalPacket(p) ==
    /\ Carried(p)
    /\ p.op \in {OPCODE_RRQ, OPCODE_WRQ} => p.filename # <<>>
    /\ \A key \in DOMAIN p.options : key # <<>>

\* a packet value as the decoder writes it: mode and option names in lower case
Lowered(p) ==
    /\ NoCapital(p.mode)
    /\ \A key \in DOMAIN p.options : NoCapital(key)

RoundTripped == codec.stage = "decoded" /\ codec.pkt.ok

\* C27 (as amended): for every packet value p of the six variants whose texts
\* hold no NUL, whose filename (RRQ/WRQ) is not empty, whose option names are
\* not empty, and whose mode and option names hold no capital letter,
\* from_bytes(p.to_bytes()) succeeds and yields the same variant with the
\* same field values, whatever the order in which the options were written.
C27_RoundTripLowered ==
    RoundTripped /\ LegalPacket(codec.pkt) /\ Lowered(codec.pkt)
        => codec.got = codec.pkt

\* C27 (as stated): from_bytes(p.to_bytes()) yields p for every legal packet
\* value p, a request whose mode is written in capitals included.
C27_RoundTripLegal ==
    RoundTripped /\ LegalPacket(codec.pkt) => codec.got = codec.pkt

\* a request with a UTF-8 name and two options, written tsize first or
\* blksize first, has come back as it was
C27_Witness ==
    /\ RoundTripped
    /\ codec.pkt.op = OPCODE_WRQ
    /\ codec.pkt.filename = <<195, 169>>
    /\ DOMAIN codec.pkt.options = {TXT_blksize, TXT_tsize}
    /\ codec.buf = to_bytes(codec.pkt, <<TXT_tsize, TXT_blksize>>)
    /\ codec.got = codec.pkt

GivenBytes == codec.stage = "decoded" /\ ~codec.pkt.ok

\* the opcode of a buffer of two bytes or more
OpcodeOf(b) == b[1] * 256 + b[2]

\* the NUL-separated fields after the opcode are fewer than two
FewerThanTwoFields(b) == \A k \in 3..Len(b) : b[k] # 0

\* C28: from_bytes returns an error for every buffer shorter than 2 bytes,
\* every buffer whose big-endian opcode is outside 1..=6, every DATA or ACK
\* buffer shorter than 4 bytes, every ERROR buffer shorter than 5 bytes and
\* every RRQ/WRQ with an empty filename or fewer than two NUL-separated
\* fields; an ACK buffer longer than 4 bytes is accepted, its block number
\* read from bytes 2 and 3 and the rest ignored.
C28_DecodeErrors ==
    GivenBytes =>
        LET b == codec.buf
            r == codec.got
        IN  /\ Len(b) < 2 => ~r.ok
            /\ Len(b) >= 2 =>
                 /\ OpcodeOf(b) \notin 1..6 => ~r.ok
                 /\ OpcodeOf(b) \in {OPCODE_DATA, OPCODE_ACK} /\ Len(b) < 4 => ~r.ok
                 /\ OpcodeOf(b) = OPCODE_ERROR /\ Len(b) < 5 => ~r.ok
                 /\ OpcodeOf(b) \in {OPCODE_RRQ, OPCODE_WRQ} /\ FewerThanTwoFields(b)
                        => ~r.ok
                 /\ OpcodeOf(b) \in {OPCODE_RRQ, OPCODE_WRQ} /\ Len(b) > 2 /\ b[3] = 0
                        => ~r.ok
                 /\ OpcodeOf(b) = OPCODE_ACK /\ Len(b) >= 4 =>
                        r = [Pkt(OPCODE_ACK) EXCEPT !.block_num = b[3] * 256 + b[4]]

\* an ACK of six bytes has been accepted as ACK{102}
C28_Witness ==
    /\ GivenBytes
    /\ codec.buf = <<0, 4, 0, 102, 200, 0>>
    /\ codec.got.ok
    /\ codec.got.op = OPCODE_ACK
    /\ codec.got.block_num = 102

(***************************************************************************)
(* Properties of the packets a session does not wait for.                  *)
(***************************************************************************)
\* the step is a receive of download i in its DATA loop
DataLoopRecv(i) ==
    /\ sess[i].kind = "rrq" /\ sess[i].pc = "wait"
    /\ sess'[i] # sess[i] \/ ntx'[i] # ntx[i] \/ out'[i] # out[i]

\* the receive of the step returned a well-formed packet that is neither the
\* awaited ACK nor ERROR
DataLoopOther(i) ==
    LET in == sess'[i].last_in
        pkt == from_bytes(in.dg)
    IN  /\ in.res = "data" /\ pkt.ok
        /\ ~(pkt.op = OPCODE_ACK /\ pkt.block_num = sess[i].block_num)
        /\ pkt.op # OPCODE_ERROR

\* the packets the claim lists, by opcode
OtherOps == {OPCODE_RRQ, OPCODE_WRQ, OPCODE_DATA, OPCODE_ACK, OPCODE_OACK}

\* the step left download i where it was and put DATA n on the wire again
SameDataAgain(i) ==
    /\ sess'[i] = [sess[i] EXCEPT !.last_in = sess'[i].last_in,
                                  !.acks = sess'[i].acks]
    /\ out'[i] = out[i] /\ ntx'[i] = ntx[i] + 1
    /\ out[i][Len(out[i])] = data_to_bytes(sess[i].block_num, sess[i].payload)
    /\ events' = events
    /\ fs' = fs

\* C29: while a download session waits for ACK{n}, the receipt of any
\* well-formed packet other than ACK{n} or ERROR leaves the block number, the
\* file position and the transferred count unchanged, leaves the retry
\* counter as it is, emits no event, and sends the identical DATA{n} again.
C29_OtherPacketResends ==
    [][\A i \in Ids : DataLoopRecv(i) /\ DataLoopOther(i) =>
          /\ sess'[i].block_num = sess[i].block_num
          /\ sess'[i].pos = sess[i].pos
          /\ sess'[i].transferred = sess[i].transferred
          /\ sess'[i].retries = sess[i].retries
          /\ sess'[i].pc = "wait"
          /\ SameDataAgain(i)]_vars

\* a download that has counted one timeout and waits for ACK 1 has received
\* an ACK of another block, a DATA, an OACK or a request, and has sent DATA 1
\* three times: once at first, once for the timeout, once for that packet
C29_Witness ==
    \E i \in Ids :
        /\ sess[i].kind = "rrq" /\ sess[i].pc = "wait"
        /\ sess[i].block_num = 1 /\ sess[i].retries = 1
        /\ sess[i].last_in.res = "data"
        /\ from_bytes(sess[i].last_in.dg).op = OPCODE_OACK
        /\ ntx[i] = 3
        /\ LastSent(i).op = OPCODE_DATA /\ LastSent(i).block_num = 1

\* the step is a receive of upload i in its loop
UploadRecv(i) ==
    /\ sess[i].kind = "wrq" /\ sess[i].pc = "recv"
    /\ sess'[i] # sess[i] \/ ntx'[i] # ntx[i] \/ out'[i] # out[i]

\* the receive of the step returned a well-formed packet that is neither the
\* expected DATA nor ERROR
UploadOther(i) ==
    LET in == sess'[i].last_in
        pkt == from_bytes(in.dg)
    IN  /\ in.res = "data" /\ pkt.ok
        /\ ~(pkt.op = OPCODE_DATA /\ pkt.block_num = sess[i].expected_block)
        /\ pkt.op # OPCODE_ERROR

\* the receive of the step returned the block before the expected one
UploadDuplicate(i) ==
    LET pkt == from_bytes(sess'[i].last_in.dg)
    IN  pkt.op = OPCODE_DATA
        /\ pkt.block_num = (sess[i].expected_block + U16_MOD - 1) % U16_MOD

\* the step put exactly the datagram dg of session i on the wire
SentJust(i, dg) ==
    /\ out'[i] # <<>> /\ out'[i][Len(out'[i])] = dg
    /\ \/ out'[i] = Append(out[i], dg) /\ ntx'[i] = 1
       \/ out'[i] = out[i] /\ ntx'[i] = ntx[i] + 1

\* C30: while an upload session expects block e, the receipt of any
\* well-formed packet other than DATA{e} or ERROR does not advance e, writes
\* nothing to the destination file and emits no event; ACK{e-1} (mod 2^16)
\* is sent when the packet is DATA{e-1}, and nothing is sent otherwise.
C30_OtherPacketIgnored ==
    [][\A i \in Ids : UploadRecv(i) /\ UploadOther(i) =>
          /\ sess'[i] = [sess[i] EXCEPT !.last_in = sess'[i].last_in,
                                        !.acks = sess'[i].acks]
          /\ sess'[i].expected_block = sess[i].expected_block
          /\ fs' = fs /\ stored' = stored
          /\ events' = events
          /\ IF UploadDuplicate(i)
             THEN SentJust(i, ack_to_bytes((sess[i].expected_block + U16_MOD - 1) % U16_MOD))
             ELSE out'[i] = out[i] /\ ntx'[i] = ntx[i]]_vars

\* an upload that has written block 1 and expects block 2 has received an
\* OACK, and the last datagram it sent is still its one ACK 1
C30_Witness ==
    \E i \in Ids :
        /\ sess[i].kind = "wrq" /\ sess[i].pc = "recv"
        /\ sess[i].expected_block = 2
        /\ sess[i].last_in.res = "data"
        /\ from_bytes(sess[i].last_in.dg).op = OPCODE_OACK
        /\ ntx[i] = 1
        /\ LastSent(i).op = OPCODE_ACK /\ LastSent(i).block_num = 1

\* an upload that expects block 2 has received block 1 again and has sent
\* ACK 1 a second time
C30_DuplicateAcked ==
    \E i \in Ids :
        /\ sess[i].kind = "wrq" /\ sess[i].pc = "recv"
        /\ sess[i].expected_block = 2
        /\ from_bytes(sess[i].last_in.dg).op = OPCODE_DATA
        /\ from_bytes(sess[i].last_in.dg).block_num = 1
        /\ ntx[i] = 2
        /\ LastSent(i).op = OPCODE_ACK /\ LastSent(i).block_num = 1

(***************************************************************************)
(* Properties of the timeouts of an upload.                                *)
(***************************************************************************)
\* the receive of the step timed out with the retry cap not yet reached
UploadTimeout(i) ==
    /\ UploadRecv(i)
    /\ sess'[i].last_in.res = "timeout"
    /\ sess[i].retries < MAX_RETRIES

\* a timeout below the cap counts one retry, sends ACK{e-1} and leaves the
\* session, the file and the event channel as they were
C31_TimeoutStep ==
    \A i \in Ids : UploadTimeout(i) =>
        /\ sess'[i] = [sess[i] EXCEPT !.last_in = sess'[i].last_in,
                                      !.retries = sess[i].retries + 1]
        /\ SentJust(i, ack_to_bytes((sess[i].expected_block + U16_MOD - 1) % U16_MOD))
        /\ sess[i].expected_block = 1 => LastSentAfter(i) = [Pkt(OPCODE_ACK) EXCEPT !.block_num = 0]
        /\ events' = events /\ fs' = fs /\ stored' = stored

\* an upload puts an OACK on the wire only as its first datagram
C31_OackStep ==
    \A i \in Ids :
        /\ sess[i].kind = "wrq"
        /\ out'[i] # out[i] \/ ntx'[i] # ntx[i]
        /\ out'[i] # <<>>
        /\ LastSentAfter(i).op = OPCODE_OACK
        => sess[i].pc = "ack0" /\ out[i] = <<>>

\* an upload that acknowledged options has sent its OACK once when it has
\* passed its initial acknowledgment, and an upload never holds two
C31_OneOack ==
    \A i \in Ids : sess[i].kind = "wrq" =>
        /\ OacksSent(i) \subseteq {1}
        /\ 1 \in OacksSent(i) /\ Len(out[i]) = 1 => ntx[i] = 1
        /\ sess[i].pc \in {"create", "recv", "write", "ack", "flush", "done"}
              => (OacksSent(i) = {1} <=> DOMAIN sess[i].oack_options # {})

\* C31: on every receive timeout of an upload session below the retry cap
\* the session sends ACK{e-1} for the expected block e again and does nothing
\* else but count the timeout; while it expects block 1 that is ACK{0}, also
\* when its initial acknowledgment was an OACK, which is sent exactly once.
C31_TimeoutResendsAck == []C31_OneOack /\ [][C31_TimeoutStep /\ C31_OackStep]_vars

\* an upload whose initial acknowledgment was an OACK has timed out twice
\* before block 1 and has sent ACK 0 twice after its one OACK
C31_Witness ==
    \E i \in Ids :
        /\ sess[i].kind = "wrq" /\ sess[i].pc = "recv"
        /\ sess[i].expected_block = 1 /\ sess[i].retries = 2
        /\ sess[i].last_in.res = "timeout"
        /\ Len(out[i]) = 2 /\ ntx[i] = 2
        /\ from_bytes(out[i][1]).op = OPCODE_OACK
        /\ from_bytes(out[i][2]) = [Pkt(OPCODE_ACK) EXCEPT !.block_num = 0]

(***************************************************************************)
(* Properties of the datagrams the listener does not serve.                *)
(***************************************************************************)
\* dg does not decode, or decodes to DATA, ACK, ERROR or OACK
NoRequest(dg) ==
    \/ ~from_bytes(dg).ok
    \/ from_bytes(dg).op \in {OPCODE_DATA, OPCODE_ACK, OPCODE_ERROR, OPCODE_OACK}

\* the opcodes of the datagrams of ListenerDatagrams that decode to no request
StrayOpcodes == { from_bytes(dg).op : dg \in { d \in ListenerDatagrams : from_bytes(d).ok } }
                    \ {OPCODE_RRQ, OPCODE_WRQ}

\* the listener's step for such a datagram appends one Log event and changes
\* nothing else
C32_StrayStep ==
    \A dg \in ListenerDatagrams, peer \in Peers :
        NoRequest(dg) /\ Listen(dg, peer) =>
            /\ Len(events') = Len(events) + 1
            /\ SubSeq(events', 1, Len(events)) = events
            /\ events'[Len(events')].type = "Log"
            /\ UNCHANGED << sess, next_id, out, ntx, fs, stored, listening >>

\* the listener has numbered the sessions it has spawned and nothing else
C32_IdsFollowSessions ==
    /\ next_id = Len(sess) + 1
    /\ \A i \in Ids : sess[i].id = i

\* C32: a datagram on the listener that fails to decode, or that decodes to
\* DATA, ACK, ERROR or OACK, produces exactly one Log event and nothing else:
\* no session is spawned, no session id is consumed, so that the next
\* accepted request gets the id it would have had otherwise, and no datagram
\* is sent.
C32_StrayOnlyLogged == []C32_IdsFollowSessions /\ [][C32_StrayStep]_vars

\* after a first session has ended, the listener has logged a datagram that
\* is no request, and the next id is still 2
C32_Witness ==
    /\ StrayOpcodes = {OPCODE_DATA, OPCODE_ACK, OPCODE_ERROR, OPCODE_OACK}
    /\ Len(sess) = 1 /\ sess[1].pc = "exited" /\ sess[1].id = 1
    /\ events = << Log("unexpected packet on listener") >>
    /\ next_id = 2
    /\ listening

(***************************************************************************)
(* Properties of the probe.                                                *)
(***************************************************************************)
\* the candidate sizes whose send succeeds or fails with an error that does
\* not say "too large"
Taken == { c \in CandidateSet : kernel.send[c] \notin {40, 55, 90} }

\* the largest of a non-empty set of sizes
Largest(S) == CHOOSE c \in S : \A d \in S : d <= c

\* what the claim says the probe returns on the host
ProbeResult ==
    IF ~kernel.socket_ok \/ ~kernel.bind_ok \/ Taken = {} THEN 512
    ELSE Largest(Taken) - 4

\* the sessions that have negotiated
Negotiated == { i \in Ids : sess[i].pc = "bind" }

C33_ProbeValue ==
    /\ os_max = ProbeResult
    /\ os_max \in 512..65464
    /\ \A i \in Negotiated :
          sess[i].blksize = (IF DOMAIN sess[i].options = {} THEN 512 ELSE os_max)

\* C33: the probe returns size-4 for the first size, in the order 65468,
\* 32768, 16384, 9216, 8192, 4096, 1024, 516, whose send succeeds or fails
\* with an OS error other than 40, 55 or 90, and 512 when every size is
\* refused or the socket cannot be created or bound; the result is in
\* [512, 65464], is set once and never changes, and is the cap of every
\* negotiation of every session.
C33_ProbeOnce == []C33_ProbeValue /\ [][os_max' = os_max /\ kernel' = kernel]_vars

\* on a host that refuses the four largest sizes with errors 55 and 90 and
\* fails the send of 8192 bytes with "connection refused", two sessions that
\* asked for 65464 have both negotiated 8188
C33_Witness ==
    /\ kernel.socket_ok /\ kernel.bind_ok
    /\ kernel.send[65468] = 55 /\ kernel.send[32768] = 90
    /\ kernel.send[8192] = 111 /\ kernel.send[4096] = 0
    /\ os_max = 8188
    /\ Len(sess) = 2
    /\ \A i \in Ids : i \in Negotiated /\ sess[i].blksize = 8188

\* on a host that refuses every size the probe has returned 512
C33_AllRefused ==
    /\ kernel.socket_ok /\ kernel.bind_ok /\ Taken = {}
    /\ os_max = 512
    /\ \E i \in Negotiated : DOMAIN sess[i].options # {} /\ sess[i].blksize = 512

(***************************************************************************)
(* Properties of the progress events.                                      *)
(***************************************************************************)
\* the events the step has put on the channel
NewEvents ==
    IF Len(events') >= Len(events) /\ SubSeq(events', 1, Len(events)) = events
    THEN SubSeq(events', Len(events) + 1, Len(events'))
    ELSE <<>>

\* the TransferProgress events of session i among them
NewProgress(i) ==
    SelectSeq(NewEvents, LAMBDA e : e.type = "TransferProgress" /\ e.id = i)

\* the step is the one in which download i takes the ACK of its block, or
\* upload i acknowledges the block it has written
BlockStep(i) ==
    \/ sess[i].kind = "rrq" /\ sess[i].pc = "wait" /\ sess'[i].pc \in {"read", "done"}
    \/ sess[i].kind = "wrq" /\ sess[i].pc = "ack" /\ sess'[i].pc \in {"recv", "flush"}

\* one TransferProgress per block and none otherwise, with the cumulative
\* count of payload bytes; the counts of a session do not decrease
C34_ProgressCounts ==
    \A i \in Ids :
        /\ Len(NewProgress(i)) = IF BlockStep(i) THEN 1 ELSE 0
        /\ sess'[i].pc # "exited" => sess'[i].transferred >= sess[i].transferred
        /\ \A k \in 1..Len(NewProgress(i)) :
              LET e == NewProgress(i)[k]
              IN  /\ e.transferred = sess'[i].transferred
                  /\ sess[i].kind = "rrq" => e.transferred = sess[i].pos
                  /\ sess[i].kind = "wrq" => e.transferred = Len(sess[i].rcvd)

\* the totals: constant and never exceeded in a download, equal to the count
\* in an upload
C34_ProgressTotals ==
    \A i \in Ids : \A k \in 1..Len(NewProgress(i)) :
        LET e == NewProgress(i)[k]
        IN  /\ sess[i].kind = "rrq" =>
                 /\ e.total_bytes = sess[i].total_bytes
                 /\ sess'[i].total_bytes = sess[i].total_bytes
                 /\ e.transferred <= e.total_bytes
            /\ sess[i].kind = "wrq" => e.total_bytes = e.transferred

\* C34: a session emits exactly one TransferProgress per acknowledged
\* (download) or accepted (upload) block and none for retransmissions,
\* duplicates or timeouts; its transferred values do not decrease and equal
\* the payload bytes so far; in a download total_bytes is constant and
\* transferred never exceeds it, in an upload total_bytes equals transferred.
C34_Progress == [][C34_ProgressCounts /\ C34_ProgressTotals]_vars

\* the part of C34 about the counts alone
C34_ProgressPerBlock == [][C34_ProgressCounts]_vars

(***************************************************************************)
(* Properties of the end of an upload.                                     *)
(***************************************************************************)
\* upload i has received a short block e and the last datagram it sent is
\* ACK{e}
FinalAckSent(i) ==
    /\ sess[i].kind = "wrq"
    /\ sess[i].last_in.res = "data"
    /\ out[i] # <<>>
    /\ LET data == from_bytes(sess[i].last_in.dg)
       IN  /\ data.ok /\ data.op = OPCODE_DATA
           /\ data.block_num = sess[i].expected_block
           /\ Len(data.data) < sess[i].blksize
           /\ LastSent(i) = [Pkt(OPCODE_ACK) EXCEPT !.block_num = data.block_num]
    /\ sess[i].pc # "write"

\* after its final ACK an upload is out of its loop, and the step that emits
\* TransferComplete waits for nothing
C35_OutOfLoop ==
    \A i \in Ids : FinalAckSent(i) =>
        /\ sess[i].pc \in {"flush", "done", "failed"}
        /\ sess[i].pc = "flush" => ENABLED WrqFlush(i)

\* after its final ACK an upload neither sends nor receives
C35_Silent ==
    \A i \in Ids : FinalAckSent(i) =>
        \/ sess'[i].pc = "exited"
        \/ /\ out'[i] = out[i] /\ ntx'[i] = ntx[i]
           /\ sess'[i].last_in = sess[i].last_in

\* the events of session i that the step has put on the channel
NewOf(i, type) == SelectSeq(NewEvents, LAMBDA e : e.type = type /\ e.id = i)

\* the next step of an upload after its final ACK emits TransferComplete
C35_ThenComplete ==
    \A i \in Ids : FinalAckSent(i) /\ sess[i].pc = "flush" /\ sess'[i] # sess[i] =>
        sess'[i].pc = "done" /\ Len(NewOf(i, "TransferComplete")) = 1

\* the next step of an upload after its final ACK emits TransferComplete, or
\* TransferFailed when the flush of the file fails
C35_ThenTerminator ==
    \A i \in Ids : FinalAckSent(i) /\ sess[i].pc = "flush" /\ sess'[i] # sess[i] =>
        \/ sess'[i].pc = "done" /\ Len(NewOf(i, "TransferComplete")) = 1
        \/ /\ sess'[i].pc = "failed"
           /\ Len(NewOf(i, "TransferFailed")) = 1 /\ NewOf(i, "TransferComplete") = <<>>

\* C35 (as amended): after an upload session has sent the ACK for its final
\* (short) block it sends no datagram again and receives none, so that a
\* duplicate of the final DATA is never answered; its next step, which waits
\* for nothing from the peer, emits TransferComplete, or TransferFailed when
\* the flush of the file fails.
C35_NoDally == []C35_OutOfLoop /\ [][C35_Silent /\ C35_ThenTerminator]_vars

\* C35 (as stated): after the final ACK the session sends no datagram again
\* and emits TransferComplete.
C35_AlwaysComplete == []C35_OutOfLoop /\ [][C35_Silent /\ C35_ThenComplete]_vars

\* an upload of two blocks has completed: its last datagram is ACK 2, sent
\* once, and its task has not yet exited
C35_Witness ==
    \E i \in Ids :
        /\ FinalAckSent(i)
        /\ sess[i].pc = "done"
        /\ sess[i].expected_block = 2
        /\ ntx[i] = 1

(***************************************************************************)
(* Properties of two uploads to one path.                                  *)
(***************************************************************************)
\* the bytes of the file at place p
FileBytes(p) == Zeros(fs[p].hole) \o fs[p].data

\* C36: when two upload sessions to the same path have run concurrently and
\* both have emitted TransferComplete, the file holds the complete byte
\* string received by one of the two; their bytes are never mixed.
C36_OneUploadWins ==
    \A i, j \in Ids :
        /\ i # j
        /\ sess[i].kind = "wrq" /\ sess[j].kind = "wrq"
        /\ sess[i].pc = "done" /\ sess[j].pc = "done"
        /\ sess[i].file = sess[j].file
        => FileBytes(sess[i].file) \in { sess[i].rcvd, sess[j].rcvd }

(***************************************************************************)
(* Properties of a session whose peer has gone silent.                     *)
(***************************************************************************)
\* the step is a receive of session i that returned a datagram
DatagramStep(i) ==
    /\ i \in Ids
    /\ sess[i].pc \in {"oack_wait", "wait", "recv"}
    /\ sess'[i] # sess[i] \/ ntx'[i] # ntx[i] \/ out'[i] # out[i]
    /\ sess'[i].last_in.res = "data"

\* the task of session i has ended, after its terminating event
Ended(i) == i \in Ids /\ sess[i].pc = "exited"

\* a session counts at most MAX_RETRIES timeouts in one wait loop
C37_RetriesCapped == \A i \in Ids : sess[i].retries <= MAX_RETRIES

\* a session ends with a terminating event for its id, which it emits in
\* the step that ends its handler
C37_EndsWithTerminator ==
    \A i \in Ids : ~Terminated(sess[i]) /\ Terminated(sess'[i]) =>
        Len(NewOf(i, "TransferComplete")) + Len(NewOf(i, "TransferFailed")) = 1

\* C37: if from some point on the peer sends no further datagram to a
\* session, the session eventually emits a terminating event and its task
\* exits, tasks being scheduled fairly: a silent peer does not keep a session
\* alive beyond MAX_RETRIES timeouts of its current wait loop.
C37_SilentPeerEnds ==
    /\ []C37_RetriesCapped
    /\ [][C37_EndsWithTerminator]_vars
    /\ \A i \in 1..MaxSessions :
          \/ []<><<DatagramStep(i)>>_vars
          \/ (i \in Ids) ~> Ended(i)

\* a download has failed at its eleventh timeout in one wait loop
C37_Witness ==
    \E i \in Ids :
        /\ sess[i].kind = "rrq" /\ sess[i].pc = "failed"
        /\ sess[i].last_in.res = "timeout"
        /\ sess[i].block_num = 1
        /\ ntx[i] = MAX_RETRIES + 1
        /\ LastSent(i).op = OPCODE_DATA

(***************************************************************************)
(* Properties of the copies of one packet.                                 *)
(***************************************************************************)
\* C38: in a download session no DATA block and no OACK is transmitted more
\* than 1 + MAX_RETRIES = 11 times, whatever the peer sends.
C38_CopiesBounded ==
    \A i \in Ids : sess[i].kind = "rrq" => ntx[i] <= 1 + MAX_RETRIES

(***************************************************************************)
(* Properties of the destination file of an upload.                        *)
(***************************************************************************)
\* upload i has created its file
Created(i) == sess[i].kind = "wrq" /\ sess[i].file # <<>>

\* C39 (state part): from its creation on, at every step and also after a
\* failure, the file of an upload holds exactly the payloads the upload has
\* accepted and written, that is, the bytes received up to its file offset.
\* Holds while uploads run one after another (Spec); two uploads running at
\* once on one path (SpecConc) violate it.
C39_FileHoldsAccepted ==
    \A i \in Ids : Created(i) =>
        /\ sess[i].file \in DOMAIN fs
        /\ fs[sess[i].file].kind = "file"
        /\ FileBytes(sess[i].file) = SubSeq(sess[i].rcvd, 1, sess[i].pos)
        /\ sess[i].pc \in {"recv", "ack", "flush", "done"} => sess[i].pos = Len(sess[i].rcvd)

\* the file is created, empty, after the initial acknowledgment and before
\* any receive
C39_CreateStep ==
    \A i \in Ids : sess[i].kind = "wrq" /\ sess[i].file = <<>> /\ sess'[i].file # <<>> =>
        /\ sess[i].pc = "create"
        /\ Len(out[i]) = 1 /\ ntx[i] = 1
        /\ from_bytes(out[i][1]).op \in {OPCODE_ACK, OPCODE_OACK}
        /\ sess[i].last_in = NoRecv
        /\ fs'[sess'[i].file] = FileNode(<<>>)

\* a failure, and the end of the task, leave the file system as it is
C39_FailStep ==
    \A i \in Ids :
        /\ Created(i)
        /\ \/ sess[i].pc # "failed" /\ sess'[i].pc = "failed"
           \/ sess[i].pc = "failed" /\ sess'[i] # sess[i]
        => fs' = fs

\* C39 (whole statement): an upload session creates its destination file,
\* truncating what the file held, after it has sent its ACK{0} or OACK and
\* before it has received any DATA; from then on, at every step, also after a
\* failure, the file holds exactly the payloads accepted so far; a failed
\* session neither removes the file nor restores its previous content.
C39_PartialFileStays == []C39_FileHoldsAccepted /\ [][C39_CreateStep /\ C39_FailStep]_vars

(***************************************************************************)
(* The listener keeps no record of the sessions it has spawned.            *)
(***************************************************************************)
\* the RRQ and WRQ datagrams among those sent to the listener
RequestDatagrams == { dg \in ListenerDatagrams : ~NoRequest(dg) }

\* session i has been spawned and its task has not ended
Running(i) == sess[i].pc \notin {"done", "failed", "exited"}

\* two sessions of one kind for one peer and one filename
SameRequest(i, j) ==
    /\ sess[i].peer = sess[j].peer
    /\ sess[i].kind = sess[j].kind
    /\ sess[i].filename = sess[j].filename
    /\ sess[i].options = sess[j].options

\* the requests for "f" without options, as a peer sends and retransmits them
PlainRequests == { dg \in RequestDatagrams : Len(dg) = 4 + Len(TXT_octet) + 1 }

\* the listener takes such a request whatever sessions are running, also a
\* session of the same peer for the same file
C40_AlwaysTaken ==
    listening /\ Drained /\ Len(sess) < MaxSessions =>
        \A dg \in PlainRequests : \A peer \in Peers : ENABLED Listen(dg, peer)

\* the ids of the sessions are distinct and below next_id
C40_FreshIds ==
    /\ \A i, j \in Ids : i # j => sess[i].id # sess[j].id
    /\ \A i \in Ids : sess[i].id < next_id

\* both state parts
C40_TakenAndFresh == C40_AlwaysTaken /\ C40_FreshIds

\* a spawned session starts from the request alone and touches no other
C40_SpawnStep ==
    Len(sess') > Len(sess) =>
        /\ Len(sess') = Len(sess) + 1
        /\ \A i \in Ids : sess'[i] = sess[i] /\ out'[i] = out[i] /\ ntx'[i] = ntx[i]
        /\ LET s == sess'[Len(sess')]
           IN  /\ s.id = next_id
               /\ next_id' = next_id + 1
               /\ s.kind \in {"rrq", "wrq"}
               /\ \E pkt \in { from_bytes(dg) : dg \in RequestDatagrams } :
                      s = [NewSession(s.kind, s.peer, pkt) EXCEPT !.id = next_id]
        /\ fs' = fs /\ events' = events

\* C40: the listener keeps no record of peers or sessions: every RRQ or WRQ
\* it decodes spawns a new, independent session with a fresh id, also when a
\* session for the same peer and filename is still running, so that a
\* retransmitted request yields two concurrent sessions towards that peer.
C40_NoSessionRecord == []C40_TakenAndFresh /\ [][C40_SpawnStep]_vars

\* two sessions for the same request of one peer are waiting for that peer at
\* the same time, under different ids
C40_Witness ==
    \E i, j \in Ids :
        /\ i < j
        /\ SameRequest(i, j)
        /\ sess[i].id # sess[j].id
        /\ Running(i) /\ Running(j)
        /\ sess[i].pc \in {"wait", "recv"}
        /\ sess[j].pc \in {"wait", "recv"}

====
